---- MODULE Spec2Model ----
(***************************************************************************)
(* Model of the foreign-value bridge of blukai/shin: the Glue class of     *)
(* src/js/glue.mjs (value table, reference counts, free list, tagged-NaN   *)
(* codec, call/construct).                                                 *)
(*                                                                         *)
(* A 64-bit wire value is a tuple <<w3, w2, w1, w0>> of four 16-bit words, *)
(* most significant first (TLC integers are 32 bits wide).  A pointer of   *)
(* the module memory is the number of an 8-byte cell.  A host (JS) value   *)
(* is a record whose field t is its typeof-like kind.                      *)
(***************************************************************************)
EXTENDS Integers, Sequences, FiniteSets, TLC

VARIABLES instance,     \* this.instance: "null" or the attached instance
          values,       \* this.values: the externref table, index i at values[i+1]
          refCounts,    \* this.refCounts: sparse array, index -> count
          freeIndices,  \* this.freeIndices: stack, top is the last element
          mem,          \* instance.exports.memory: cell -> wire value
          last,         \* the latest bridge operation and its outcome
          zeroed,       \* history: the indices decrements brought to 0 since
                        \* the latest allocation, oldest first
          stack,        \* the calls of env.call whose host function is running
                        \* and has entered the module again, outermost first
          animationFrames, \* src/shin.js: the callbacks the host's frame
                        \* scheduler holds, as the loops they belong to
          loops,        \* src/shin.js: the loops request_animation_frame_loop
                        \* started, each with its scheduling calls and ticks
          buffers,      \* instance.exports.memory: the buffers the memory has
                        \* had, oldest first, each with its byteLength in
                        \* pages (0 once detached); the last is memory.buffer
          memoryViews,  \* this.memoryViews: type -> the cached view
          viewed,       \* history: the views the accessors returned to the
                        \* latest operation that called one, with the type
                        \* asked for; emptied when the memory grows
          wasmUint8Array, \* src/unnamed/part_000: the cached Uint8Array
          wasmDataView, \* src/unnamed/part_000: the cached DataView
          table,        \* externRefGlue.table, index i at table[i+1]
          externFreeIndices, \* externRefGlue.freeIndices, top is the last
          entered,      \* history: the calls of module functions that the
                        \* latest invocation of a closure made, each with
                        \* its arguments
          handleTable,  \* src/unnamed/part_001: this.handleTable, the handle
                        \* h at handleTable[h+1]
          handleCounts, \* src/unnamed/part_001: this.handleCounts
          freeHandles,  \* src/unnamed/part_001: this.freeHandles, top is last
          held,         \* history: handle -> the number of times the module
                        \* was given the handle and has not released it
          issued        \* history: the handles externRefGlue.insert returned,
                        \* each with the value inserted, oldest first

\* the Glue of src/js/glue.mjs with the module memory, and the page of
\* src/shin.js
viewVars == <<buffers, memoryViews, viewed>>
\* the Glue of src/unnamed/part_001
handleVars == <<handleTable, handleCounts, freeHandles, held>>
glueVars == <<instance, values, refCounts, freeIndices, mem, last, zeroed, stack,
              viewVars, entered, handleVars>>
frameVars == <<animationFrames, loops>>
externVars == <<wasmUint8Array, wasmDataView, table, externFreeIndices, issued>>
pageVars == <<frameVars, externVars>>

vars == <<glueVars, pageVars>>

------------------------------------------------------------------------------
(* Bounds of the model *)

\* largest length the value table may grow to
MaxLen == 2
\* largest reference count an increment may produce
MaxCount == 2
\* how far below zero a decrement may drive a count
MaxNeg == 1
\* largest length of the free list
MaxFree == 2
\* number of 8-byte cells of module memory
MemCells == 2
\* largest length of the table of the module that makes it grow
MaxGrowLen == 4
\* largest number of arguments of a call or construct
MaxArgs == 1
\* largest number of calls whose host function is running
MaxDepth == 2
\* largest number of frame loops started
MaxLoops == 2
\* largest number of ticks of one frame loop
MaxTicks == 3

------------------------------------------------------------------------------
(* Constants of src/js/glue.mjs *)

\* a 16-bit word
W16 == 2^16

QUIET_NAN == <<32760, 0, 0, 0>>
TY_MASK == 255

TY_DONT_CARE == 0
TY_OBJECT == 1
TY_FUNCTION == 2
TY_STRING == 3

ID_UNDEFINED == 1
ID_NULL == 2
ID_NAN == 3
ID_TRUE == 4
ID_FALSE == 5
ID_GLOBAL == 6
ID_GLUE == 7
ID_MAX == 8

\* QUIET_NAN | (BigInt(ty) << 32n) | BigInt(id), for ty < 2^16 and id < 2^31
rsValueFromTyId(ty, id) ==
    <<QUIET_NAN[1], ty, id \div W16, id % W16>>

\* (value >> 32n) & TY_MASK
rsValueTy(value) == value[2] % (TY_MASK + 1)

\* value & ID_MASK
rsValueId(value) == value[3] * W16 + value[4]

rsValueIsPredefined(value) == rsValueId(value) < ID_MAX

UNDEFINED == rsValueFromTyId(TY_DONT_CARE, ID_UNDEFINED)
NULL == rsValueFromTyId(TY_DONT_CARE, ID_NULL)
NAN == rsValueFromTyId(TY_DONT_CARE, ID_NAN)
TRUE_ == rsValueFromTyId(TY_DONT_CARE, ID_TRUE)
FALSE_ == rsValueFromTyId(TY_DONT_CARE, ID_FALSE)
GLOBAL == rsValueFromTyId(TY_OBJECT, ID_GLOBAL)
GLUE == rsValueFromTyId(TY_OBJECT, ID_GLUE)

\* mutant: rsValueIdx without its assertion
rsValueIdxNeverThrows(value) == FALSE

\* rsValueIdx throws when its assert(!rsValueIsPredefined(value)) fails
rsValueIdxThrows(value) == rsValueIsPredefined(value)
rsValueIdx(value) == rsValueId(value) - ID_MAX

rsValueFromTyIdx(ty, idx) == rsValueFromTyId(ty, idx + ID_MAX)

------------------------------------------------------------------------------
(* Host values *)

JsUndefined == [t |-> "undefined"]
JsNull == [t |-> "null"]
JsTrue == [t |-> "boolean", b |-> TRUE]
JsFalse == [t |-> "boolean", b |-> FALSE]
JsGlobalThis == [t |-> "object", id |-> "globalThis"]
JsGlue == [t |-> "object", id |-> "glue"]
JsNumber(bits) == [t |-> "number", bits |-> bits]
JsString(s) == [t |-> "string", s |-> s]
JsObject(id) == [t |-> "object", id |-> id]
JsFunction(id) == [t |-> "function", id |-> id]
JsSymbol(id) == [t |-> "symbol", id |-> id]

\* the Error thrown by assert/assertEq/assertNe, and the engine's errors
AssertionError == JsObject("Error: assertion failed")
RangeError == JsObject("RangeError")
TypeError == JsObject("TypeError")

\* typeof
TypeOf(v) == IF v.t = "null" THEN "object" ELSE v.t

\* an IEEE-754 double is NaN: exponent all ones, mantissa not zero
FloatIsNaN(bits) ==
    /\ (bits[1] % 32768) \div 16 = 2047
    /\ (bits[1] % 16 # 0 \/ bits[2] # 0 \/ bits[3] # 0 \/ bits[4] # 0)

\* the one NaN of the host, as DataView.getFloat64 returns it
JsNaN == JsNumber(QUIET_NAN)

\* Number.isNaN
NumberIsNaN(v) == v.t = "number" /\ FloatIsNaN(v.bits)

\* DataView.getFloat64: every NaN pattern reads as the one NaN
GetFloat64(bits) == IF FloatIsNaN(bits) THEN JsNaN ELSE JsNumber(bits)

------------------------------------------------------------------------------
(* Reference counts: the entries of the sparse array this.refCounts *)

CountUndefined == [k |-> "undefined", n |-> 0]
CountNaN == [k |-> "NaN", n |-> 0]
CountNum(n) == [k |-> "number", n |-> n]

\* this.refCounts[idx]: a hole or an index past the end reads undefined
RefCountAt(rc, idx) == IF idx \in DOMAIN rc THEN rc[idx] ELSE CountUndefined

\* c + d of the host: undefined + d and NaN + d are NaN
JsAdd(c, d) == IF c.k = "number" THEN CountNum(c.n + d) ELSE CountNaN

\* this.refCounts[idx] = c
SetCount(rc, idx, c) ==
    [i \in DOMAIN rc \cup {idx} |-> IF i = idx THEN c ELSE rc[i]]

------------------------------------------------------------------------------
(* The value table *)

Max(a, b) == IF a >= b THEN a ELSE b

Table == [values |-> values, refCounts |-> refCounts, freeIndices |-> freeIndices]

\* the indices the growth loop pushes, in the order it pushes them
GrowPushOrder(oldLen, delta) == [i \in 1..delta |-> oldLen + (i - 1)]

\* this.freeIndices.pop(): the free list without its last element
PopRest(free) == SubSeq(free, 1, Len(free) - 1)
PopIdx(free) == free[Len(free)]

\* mutant: the table grows by one slot
GrowDeltaOne(oldLen) == 1

\* const delta = Math.max(1, oldLen)
GrowDelta(oldLen) == Max(1, oldLen)

\* mutant: a table of the new length with every slot empty
TableGrowAfresh(vals, delta) == [i \in 1..(Len(vals) + delta) |-> JsUndefined]

\* this.values.grow(delta): delta new slots, holding undefined
TableGrow(vals, delta) == vals \o [i \in 1..delta |-> JsUndefined]

\* the assertions of allocValue on its growth path hold: assertEq(
\* this.freeIndices.length, 0) before the growth, assertEq(this.values.length,
\* oldLen + delta) and assertEq(this.freeIndices.length, delta) after it
GrowthAssertionsHold(T) ==
    LET oldLen == Len(T.values)
        delta == GrowDelta(oldLen)
    IN  /\ Len(T.freeIndices) = 0
        /\ Len(TableGrow(T.values, delta)) = oldLen + delta
        /\ Len(T.freeIndices \o GrowPushOrder(oldLen, delta)) = delta

\* mutant: allocValue taking the oldest free index (shift) instead of the
\* newest (pop)
allocValueFifo(T, value) ==
    LET popped == T.freeIndices # <<>>
        oldLen == Len(T.values)
        delta == GrowDelta(oldLen)
        vals1 == IF popped THEN T.values ELSE TableGrow(T.values, delta)
        free1 == IF popped THEN T.freeIndices ELSE GrowPushOrder(oldLen, delta)
        idx == Head(free1)
    IN  [idx |-> idx,
         T |-> [values |-> [vals1 EXCEPT ![idx + 1] = value],
                refCounts |-> SetCount(T.refCounts, idx, CountNum(1)),
                freeIndices |-> Tail(free1)]]

\* allocValue: [idx, T] with T the table after the call
allocValue(T, value) ==
    LET popped == T.freeIndices # <<>>
        oldLen == Len(T.values)
        delta == GrowDelta(oldLen)
        vals1 == IF popped THEN T.values ELSE TableGrow(T.values, delta)
        free1 == IF popped THEN T.freeIndices ELSE GrowPushOrder(oldLen, delta)
        idx == PopIdx(free1)
    IN  [idx |-> idx,
         T |-> [values |-> [vals1 EXCEPT ![idx + 1] = value],
                refCounts |-> SetCount(T.refCounts, idx, CountNum(1)),
                freeIndices |-> PopRest(free1)]]

\* increment_ref_count: [threw, err, T]
increment_ref_count(T, ref) ==
    IF rsValueIdxThrows(ref)
    THEN [threw |-> TRUE, err |-> AssertionError, T |-> T]
    ELSE LET idx == rsValueIdx(ref)
         IN  [threw |-> FALSE, err |-> JsUndefined,
              T |-> [T EXCEPT !.refCounts =
                        SetCount(@, idx, JsAdd(RefCountAt(@, idx), 1))]]

\* mutant: the index is pushed and the slot keeps its value
FreeSlotKeepsValue(T, idx) ==
    [T EXCEPT !.freeIndices = Append(@, idx)]

\* the body of if (count === 0) in decrement_ref_count: push, then clear
FreeSlot(T, idx) ==
    [T EXCEPT !.freeIndices = Append(@, idx),
              !.values = [@ EXCEPT ![idx + 1] = JsUndefined]]

\* mutant: decrement_ref_count without assert(count >= 0)
decrement_ref_count_unchecked(T, ref) ==
    IF rsValueIdxThrows(ref)
    THEN [threw |-> TRUE, err |-> AssertionError, T |-> T, zero |-> -1]
    ELSE LET idx == rsValueIdx(ref)
             count == JsAdd(RefCountAt(T.refCounts, idx), -1)
             T1 == [T EXCEPT !.refCounts = SetCount(@, idx, count)]
         IN  IF count = CountNum(0) /\ idx < Len(T.values)
             THEN [threw |-> FALSE, err |-> JsUndefined,
                   T |-> FreeSlot(T1, idx), zero |-> idx]
             ELSE [threw |-> FALSE, err |-> JsUndefined, T |-> T1, zero |-> -1]

\* decrement_ref_count: [threw, err, T, zero], zero the index brought to 0
\* (-1 when none)
decrement_ref_count(T, ref) ==
    IF rsValueIdxThrows(ref)
    THEN [threw |-> TRUE, err |-> AssertionError, T |-> T, zero |-> -1]
    ELSE LET idx == rsValueIdx(ref)
             count == JsAdd(RefCountAt(T.refCounts, idx), -1)
             T1 == [T EXCEPT !.refCounts = SetCount(@, idx, count)]
         IN  IF ~(count.k = "number" /\ count.n >= 0)
             THEN \* assert(count >= 0) fails after the count was written
                  [threw |-> TRUE, err |-> AssertionError, T |-> T1, zero |-> -1]
             ELSE IF count.n = 0
             THEN IF idx < Len(T.values)
                  THEN [threw |-> FALSE, err |-> JsUndefined,
                        T |-> FreeSlot(T1, idx), zero |-> idx]
                  ELSE \* Table.set out of range, after the push
                       [threw |-> TRUE, err |-> RangeError,
                        T |-> [T1 EXCEPT !.freeIndices = Append(@, idx)],
                        zero |-> idx]
             ELSE [threw |-> FALSE, err |-> JsUndefined, T |-> T1, zero |-> -1]

------------------------------------------------------------------------------
(* The tagged value codec *)

Ptrs == 0..(MemCells - 1)

\* mutant: the tags of functions and strings exchanged
TyOfJsValueSwapped(jsValue) ==
    CASE TypeOf(jsValue) = "object" -> TY_OBJECT
      [] TypeOf(jsValue) = "function" -> TY_STRING
      [] TypeOf(jsValue) = "string" -> TY_FUNCTION
      [] OTHER -> TY_DONT_CARE

\* the tag storeJsValueIntoRsValuePtr picks in its switch on typeof jsValue
TyOfJsValue(jsValue) ==
    CASE TypeOf(jsValue) = "object" -> TY_OBJECT
      [] TypeOf(jsValue) = "function" -> TY_FUNCTION
      [] TypeOf(jsValue) = "string" -> TY_STRING
      [] OTHER -> TY_DONT_CARE

\* the first switch of storeJsValueIntoRsValuePtr: the wire value of a
\* singleton it writes
SingletonPattern(jsValue) ==
    CASE jsValue = JsUndefined -> UNDEFINED
      [] jsValue = JsNull -> NULL
      [] jsValue = JsTrue -> TRUE_
      [] jsValue = JsFalse -> FALSE_

\* the cases of the first switch that end in assert(false)
StoreAssertsFalse(jsValue) == jsValue \in {JsGlobalThis, JsGlue}

\* mutant: a NaN is written with its own bits, like any number
NumberPatternRaw(jsValue) == jsValue.bits

\* the wire value written for a number: NAN for NaN, else its own bits
NumberPattern(jsValue) ==
    IF NumberIsNaN(jsValue) THEN NAN ELSE jsValue.bits

\* storeJsValueIntoRsValuePtr: [threw, err, T, mem, idx] after the call, idx
\* the index allocated (-1 when none)
storeJsValueIntoRsValuePtr(T, m, jsValue, rsValuePtr) ==
    IF jsValue \in {JsUndefined, JsNull, JsTrue, JsFalse}
    THEN [threw |-> FALSE, err |-> JsUndefined, T |-> T, idx |-> -1,
          mem |-> [m EXCEPT ![rsValuePtr] = SingletonPattern(jsValue)]]
    ELSE IF StoreAssertsFalse(jsValue)
    THEN [threw |-> TRUE, err |-> AssertionError, T |-> T, idx |-> -1, mem |-> m]
    ELSE IF TypeOf(jsValue) = "number"
    THEN [threw |-> FALSE, err |-> JsUndefined, T |-> T, idx |-> -1,
          mem |-> [m EXCEPT ![rsValuePtr] = NumberPattern(jsValue)]]
    ELSE LET a == allocValue(T, jsValue)
         IN  [threw |-> FALSE, err |-> JsUndefined, T |-> a.T, idx |-> a.idx,
              mem |-> [m EXCEPT ![rsValuePtr] =
                          rsValueFromTyIdx(TyOfJsValue(jsValue), a.idx)]]

\* mutant: a wire value whose tag is not that of the value in its slot
\* selects no slot
SlotOfTagged(T, rsValue) ==
    IF /\ rsValueIdx(rsValue) < Len(T.values)
       /\ rsValueTy(rsValue) # TyOfJsValue(T.values[rsValueIdx(rsValue) + 1])
    THEN Len(T.values)
    ELSE rsValueIdx(rsValue)

\* the slot const idx = rsValueIdx(rsValue); this.values.get(idx) reads: the
\* id alone selects it
SlotOf(T, rsValue) == rsValueIdx(rsValue)

\* resolveJsValueFromRsValue: [threw, val], val the value or the error thrown
resolveJsValueFromRsValue(T, rsValue) ==
    CASE rsValue = UNDEFINED -> [threw |-> FALSE, val |-> JsUndefined]
      [] rsValue = NULL -> [threw |-> FALSE, val |-> JsNull]
      [] rsValue = NAN -> [threw |-> FALSE, val |-> JsNaN]
      [] rsValue = TRUE_ -> [threw |-> FALSE, val |-> JsTrue]
      [] rsValue = FALSE_ -> [threw |-> FALSE, val |-> JsFalse]
      [] rsValue = GLOBAL -> [threw |-> FALSE, val |-> JsGlobalThis]
      [] rsValue = GLUE -> [threw |-> FALSE, val |-> JsGlue]
      [] OTHER ->
           IF rsValueIdxThrows(rsValue)
           THEN [threw |-> TRUE, val |-> AssertionError]
           ELSE IF SlotOf(T, rsValue) >= Len(T.values)
           THEN [threw |-> TRUE, val |-> RangeError]   \* Table.get out of range
           ELSE [threw |-> FALSE, val |-> T.values[SlotOf(T, rsValue) + 1]]

\* resolveJsValueFromRsValuePtr
resolveJsValueFromRsValuePtr(T, m, rsValuePtr) ==
    IF ~FloatIsNaN(m[rsValuePtr])
    THEN [threw |-> FALSE, val |-> GetFloat64(m[rsValuePtr])]
    ELSE resolveJsValueFromRsValue(T, m[rsValuePtr])

------------------------------------------------------------------------------
(* call and construct *)

\* Reflect.apply needs a callable target, Reflect.construct a constructor
IsCallable(v) == v.t = "function"

\* value.bind(target): a new function that runs value with receiver target
JsBound(value, target) == [t |-> "function", bound |-> value, this |-> target]
IsBound(v) == v.t = "function" /\ "bound" \in DOMAIN v

\* Reflect.apply(target, undefined, args): the function that runs, and its
\* receiver (undefined, unless the target is bound)
Callee(target) == IF IsBound(target) THEN target.bound ELSE target
Receiver(target) == IF IsBound(target) THEN target.this ELSE JsUndefined

\* the frame of a host function that ran: the function, and its receiver
Frame(fn, recv) == [fn |-> fn, recv |-> recv]
NoFrame == Frame(JsUndefined, JsUndefined)

\* the try block up to the host function's completion: [threw, val, ran],
\* val the value returned or thrown, ran whether the host function ran.
\* host = [throws, val] is what the host function does when it runs.
InvokeTarget(T, m, ref, argsPtr, argsLen, host) ==
    LET target == resolveJsValueFromRsValue(T, ref)
        arg(i) == IF argsPtr + i \in Ptrs
                  THEN resolveJsValueFromRsValuePtr(T, m, argsPtr + i)
                  ELSE [threw |-> TRUE, val |-> RangeError]  \* DataView bounds
        bad == {i \in 0..(argsLen - 1) : arg(i).threw}
        firstBad == CHOOSE i \in bad : \A j \in bad : i <= j
    IN  IF target.threw THEN [threw |-> TRUE, val |-> target.val, ran |-> FALSE]
        ELSE IF bad # {} THEN [threw |-> TRUE, val |-> arg(firstBad).val, ran |-> FALSE]
        ELSE IF ~IsCallable(target.val)
        THEN [threw |-> TRUE, val |-> TypeError, ran |-> FALSE]
        ELSE [threw |-> host.throws, val |-> host.val, ran |-> TRUE,
              frame |-> Frame(Callee(target.val), Receiver(target.val))]

\* what the catch block stores: the exception of the try block, be it the
\* host function's or that of storing its result
CaughtBy(body, stored) == IF body.threw THEN body.val ELSE stored.err

\* the rest of call and construct once the try block's calls have completed
\* as body says, on the table and memory of that moment: [threw, err, ret,
\* T, mem, idx, host, frame]; threw says an exception left the operation
callCompletion(T, m, body, outPtr) ==
    LET ok == storeJsValueIntoRsValuePtr(T, m, body.val, outPtr)
        ran == IF ~body.ran THEN "none"
               ELSE IF body.threw THEN "threw" ELSE "returned"
        frame == IF body.ran THEN body.frame ELSE NoFrame
        err == storeJsValueIntoRsValuePtr(T, m, CaughtBy(body, ok), outPtr)
    IN  IF ~body.threw /\ ~ok.threw
        THEN [threw |-> FALSE, err |-> JsUndefined, ret |-> JsTrue,
              T |-> ok.T, mem |-> ok.mem, idx |-> ok.idx, host |-> ran, frame |-> frame]
        ELSE IF ~err.threw
        THEN [threw |-> FALSE, err |-> JsUndefined, ret |-> JsFalse,
              T |-> err.T, mem |-> err.mem, idx |-> err.idx, host |-> ran, frame |-> frame]
        ELSE [threw |-> TRUE, err |-> err.err, ret |-> JsUndefined,
              T |-> T, mem |-> m, idx |-> -1, host |-> ran, frame |-> frame]

\* call and construct, with a host function that does not enter the module
call(T, m, ref, argsPtr, argsLen, outPtr, host) ==
    callCompletion(T, m, InvokeTarget(T, m, ref, argsPtr, argsLen, host), outPtr)

------------------------------------------------------------------------------
(* The handle table of src/unnamed/part_001, as a table [values, refCounts,
   freeIndices] of its handleTable, handleCounts and freeHandles *)

\* mutant: the new handles are pushed in ascending order
GrowPushAscending(oldLen, growDelta) == GrowPushOrder(oldLen, growDelta)

\* for (let i = growDelta; i > 0; i -= 1) this.freeHandles.push(oldLen + i - 1)
GrowPushReverse(oldLen, growDelta) ==
    [k \in 1..growDelta |-> oldLen + (growDelta - (k - 1)) - 1]

\* allocValueUnchecked: [idx, T], idx the handle returned
allocValueUnchecked(T, value) ==
    LET popped == T.freeIndices # <<>>
        oldLen == Len(T.values)
        growDelta == GrowDelta(oldLen)
        vals1 == IF popped THEN T.values ELSE TableGrow(T.values, growDelta)
        free1 == IF popped THEN T.freeIndices
                 ELSE GrowPushReverse(oldLen, growDelta)
        handle == PopIdx(free1)
    IN  [idx |-> handle,
         T |-> [values |-> [vals1 EXCEPT ![handle + 1] = value],
                refCounts |-> SetCount(T.refCounts, handle, CountNum(1)),
                freeIndices |-> PopRest(free1)]]

\* the predefined handles
HandleUNDEFINED == 0
HandleNULL == 1
HandleGLOBAL == 2
HandleGLUE == 3

\* the four allocations of the constructor, in their order
RECURSIVE ConstructedUpTo(_)
ConstructedUpTo(k) ==
    LET predefined == <<JsUndefined, JsNull, JsGlobalThis, JsGlue>>
        empty == [values |-> <<>>, refCounts |-> <<>>, freeIndices |-> <<>>]
    IN  IF k = 0 THEN <<>>
        ELSE LET before == ConstructedUpTo(k - 1)
                 T == IF k = 1 THEN empty ELSE before[k - 1].T
             IN  Append(before, allocValueUnchecked(T, predefined[k]))
Constructed == ConstructedUpTo(4)

\* the assertEq of the constructor hold
ConstructorAssertionsHold ==
    /\ Constructed[1].idx = HandleUNDEFINED
    /\ Constructed[2].idx = HandleNULL
    /\ Constructed[3].idx = HandleGLOBAL
    /\ Constructed[4].idx = HandleGLUE

\* allocValue of part_001: [idx, T]
handleAllocValue(T, value) ==
    IF value = JsUndefined
    THEN [idx |-> HandleUNDEFINED,
          T |-> [T EXCEPT !.refCounts = SetCount(@, HandleUNDEFINED,
                              JsAdd(RefCountAt(@, HandleUNDEFINED), 1))]]
    ELSE IF value = JsNull
    THEN [idx |-> HandleNULL,
          T |-> [T EXCEPT !.refCounts = SetCount(@, HandleNULL,
                              JsAdd(RefCountAt(@, HandleNULL), 1))]]
    ELSE allocValueUnchecked(T, value)

\* increment_strong_count: the table after the call
increment_strong_count(T, handle) ==
    [T EXCEPT !.refCounts = SetCount(@, handle, JsAdd(RefCountAt(@, handle), 1))]

\* decrement_strong_count: [threw, T]
decrement_strong_count(T, handle) ==
    LET count == JsAdd(RefCountAt(T.refCounts, handle), -1)
        T1 == [T EXCEPT !.refCounts = SetCount(@, handle, count)]
    IN  IF ~(count.k = "number" /\ count.n >= 0)
        THEN [threw |-> TRUE, T |-> T1]
        ELSE IF count.n = 0
        THEN [threw |-> FALSE, T |-> [T1 EXCEPT !.freeIndices = Append(@, handle)]]
        ELSE [threw |-> FALSE, T |-> T1]

------------------------------------------------------------------------------
(* The buffer of the module memory, and the cached views of it.  A buffer is
   named by its place in buffers; memory.grow detaches the buffer and makes a
   new one, also when it grows by no page. *)

\* the bound of the model: the number of buffers the memory may have had
MaxBuffers == 3

\* the pages of the memory the module starts with
InitialPages == 1

\* the constructors getMemoryView is called with
DataView == "DataView"
Uint8Array == "Uint8Array"
ViewTypes == {DataView, Uint8Array}

\* new type(buffer), and the undefined (or null) of an empty cache
NewView(type, buffer) == [type |-> type, buffer |-> buffer]
NoView == [type |-> "undefined", buffer |-> 0]

\* instance.exports.memory.buffer
MemoryBuffer(bufs) == Len(bufs)

\* view.byteLength, in pages: 0 for a view of a detached buffer
ByteLength(view, bufs) == bufs[view.buffer]

\* memory.grow(delta)
MemoryGrow(bufs, delta) ==
    [k \in 1..Len(bufs) |-> 0] \o <<bufs[Len(bufs)] + delta>>

\* mutant: a cached view is never taken for stale
ViewIsStaleNever(maybeMemoryView, buffer) == FALSE

\* maybeMemoryView.buffer !== buffer
ViewIsStale(maybeMemoryView, buffer) == maybeMemoryView.buffer # buffer

\* getMemoryView(type): this.memoryViews after the call; the view returned
\* is its entry for type
getMemoryView(views, bufs, type) ==
    LET maybeMemoryView == views[type]
        buffer == MemoryBuffer(bufs)
    IN  IF maybeMemoryView = NoView \/ ViewIsStale(maybeMemoryView, buffer)
        THEN [views EXCEPT ![type] = NewView(type, buffer)]
        ELSE views

\* the operation called getMemoryView for each of the types, on the buffers
\* bufs; with no type it leaves the cache and the history as they are
GetMemoryViews(types, bufs) ==
    LET after == [type \in ViewTypes |->
                     IF type \in types
                     THEN getMemoryView(memoryViews, bufs, type)[type]
                     ELSE memoryViews[type]]
    IN  /\ memoryViews' = after
        /\ viewed' = IF types = {} THEN viewed
                      ELSE {[asked |-> type, view |-> after[type]] : type \in types}

\* an operation that leaves the memory as it is called getMemoryView for
\* each of the types
Views(types) == GetMemoryViews(types, buffers) /\ UNCHANGED buffers

------------------------------------------------------------------------------
(* Operations *)

ZeroBits == <<0, 0, 0, 0>>

\* the record of an operation: its name, the host value it was given (store)
\* or the host function returned or threw (call), its ref, its out pointer,
\* whether an exception left it, what it returned (or the error), whether
\* the host function ran, and the frame it ran in
Op(op, val, ref, ptr, threw, ret, host, frame) ==
    [op |-> op, val |-> val, ref |-> ref, ptr |-> ptr, threw |-> threw,
     ret |-> ret, host |-> host, frame |-> frame]

Init ==
    /\ instance = "null"
    /\ values = <<>>
    /\ refCounts = <<>>
    /\ freeIndices = <<>>
    /\ mem = [p \in Ptrs |-> ZeroBits]
    /\ last = Op("new", JsUndefined, ZeroBits, 0, FALSE, JsUndefined, "none", NoFrame)
    /\ zeroed = <<>>
    /\ stack = <<>>
    /\ animationFrames = <<>>
    /\ loops = <<>>
    /\ buffers = <<InitialPages>>
    /\ memoryViews = [type \in ViewTypes |-> NoView]
    /\ viewed = {}
    /\ wasmUint8Array = NoView
    /\ wasmDataView = NoView
    /\ table = <<>>
    /\ externFreeIndices = <<>>
    /\ issued = <<>>
    /\ entered = <<>>
    /\ handleTable = Constructed[4].T.values
    /\ handleCounts = Constructed[4].T.refCounts
    /\ freeHandles = Constructed[4].T.freeIndices
    /\ held = [h \in {} |-> 0]

\* the imports are called by the module instance the Glue is attached to
Attached == instance # "null"

\* the module instance that holds enough values to make the table grow twice
GrowthInstance == "growth"

\* the bounds of the model, on the table an operation leaves
WithinBounds(T) ==
    /\ Len(T.values) <= (IF instance = GrowthInstance THEN MaxGrowLen ELSE MaxLen)
    /\ Len(T.freeIndices) <= MaxFree
    /\ \A i \in DOMAIN T.refCounts :
          T.refCounts[i].n >= -MaxNeg /\ T.refCounts[i].n <= MaxCount

SetTable(T) ==
    /\ WithinBounds(T)
    /\ values' = T.values
    /\ refCounts' = T.refCounts
    /\ freeIndices' = T.freeIndices

\* the module instances, and a value that is no WebAssembly.Instance
WasmInstances == {"instance", GrowthInstance}
NotAnInstance == "object"

\* mutant: init without assert(!this.instance)
InitAssertsInstanceOnly(cur, inst) == inst \in WasmInstances

\* the assertions of init hold: assert(instance instanceof
\* WebAssembly.Instance) and assert(!this.instance)
InitAssertionsHold(cur, inst) == inst \in WasmInstances /\ cur = "null"

\* Glue.init
GlueInit(inst) ==
    /\ IF InitAssertionsHold(instance, inst)
       THEN /\ instance' = inst
            /\ last' = Op("init", JsObject(inst), ZeroBits, 0, FALSE, JsUndefined, "none", NoFrame)
       ELSE /\ instance' = instance
            /\ last' = Op("init", JsObject(inst), ZeroBits, 0, TRUE, AssertionError, "none", NoFrame)
    /\ UNCHANGED <<values, refCounts, freeIndices, mem, zeroed>>
    /\ UNCHANGED <<stack, pageVars, entered, handleVars>>
    /\ UNCHANGED viewVars

\* a call of storeJsValueIntoRsValuePtr(jsValue, rsValuePtr)
StoreJsValue(jsValue, rsValuePtr) ==
    /\ Attached
    /\ LET r == storeJsValueIntoRsValuePtr(Table, mem, jsValue, rsValuePtr)
       IN  /\ SetTable(r.T)
           /\ mem' = r.mem
           /\ zeroed' = IF r.idx >= 0 THEN <<>> ELSE zeroed
           /\ last' = Op("store", jsValue, ZeroBits, rsValuePtr, r.threw, r.err, "none", NoFrame)
    /\ UNCHANGED instance
    /\ UNCHANGED <<stack, pageVars, entered, handleVars>>
    /\ Views({DataView})

\* a call of resolveJsValueFromRsValuePtr(rsValuePtr)
ResolveJsValue(rsValuePtr) ==
    /\ Attached
    /\ LET r == resolveJsValueFromRsValuePtr(Table, mem, rsValuePtr)
       IN  last' = Op("resolve", JsUndefined, mem[rsValuePtr], rsValuePtr,
                      r.threw, r.val, "none", NoFrame)
    /\ UNCHANGED <<instance, values, refCounts, freeIndices, mem, zeroed>>
    /\ UNCHANGED <<stack, pageVars, entered, handleVars>>
    /\ Views({DataView})

\* env.increment_ref_count(ref)
IncrementRefCount(ref) ==
    /\ Attached
    /\ LET r == increment_ref_count(Table, ref)
       IN  /\ SetTable(r.T)
           /\ last' = Op("increment", JsUndefined, ref, 0, r.threw, r.err, "none", NoFrame)
    /\ UNCHANGED <<instance, mem, zeroed>>
    /\ UNCHANGED <<stack, pageVars, entered, handleVars>>
    /\ UNCHANGED viewVars

\* env.decrement_ref_count(ref)
DecrementRefCount(ref) ==
    /\ Attached
    /\ LET r == decrement_ref_count(Table, ref)
       IN  /\ SetTable(r.T)
           /\ zeroed' = IF r.zero >= 0 THEN Append(zeroed, r.zero) ELSE zeroed
           /\ last' = Op("decrement", JsUndefined, ref, 0, r.threw, r.err, "none", NoFrame)
    /\ UNCHANGED <<instance, mem>>
    /\ UNCHANGED <<stack, pageVars, entered, handleVars>>
    /\ UNCHANGED viewVars

\* env.call(ref, argsPtr, argsLen, outPtr); host is what the host function
\* does if it runs.  The record of the operation has the place and the number
\* of the arguments too.
Call(ref, argsPtr, argsLen, outPtr, host) ==
    /\ Attached
    /\ LET r == call(Table, mem, ref, argsPtr, argsLen, outPtr, host)
       IN  /\ SetTable(r.T)
           /\ mem' = r.mem
           /\ zeroed' = IF r.idx >= 0 THEN <<>> ELSE zeroed
           /\ last' = Op("call", IF r.host = "none" THEN JsUndefined ELSE host.val,
                         ref, outPtr, r.threw,
                         IF r.threw THEN r.err ELSE r.ret, r.host, r.frame)
                         @@ [argsPtr |-> argsPtr, argsLen |-> argsLen]
    /\ UNCHANGED instance
    /\ UNCHANGED <<stack, pageVars, entered, handleVars>>
    /\ Views({DataView})

\* env.construct(ref, argsPtr, argsLen, outPtr): the body of call, with
\* Reflect.construct in the place of Reflect.apply
Construct(ref, argsPtr, argsLen, outPtr, host) ==
    /\ Attached
    /\ LET r == call(Table, mem, ref, argsPtr, argsLen, outPtr, host)
       IN  /\ SetTable(r.T)
           /\ mem' = r.mem
           /\ zeroed' = IF r.idx >= 0 THEN <<>> ELSE zeroed
           /\ last' = Op("construct", IF r.host = "none" THEN JsUndefined ELSE host.val,
                         ref, outPtr, r.threw,
                         IF r.threw THEN r.err ELSE r.ret, r.host, r.frame)
                         @@ [argsPtr |-> argsPtr, argsLen |-> argsLen]
    /\ UNCHANGED instance
    /\ UNCHANGED <<stack, pageVars, entered, handleVars>>
    /\ Views({DataView})

------------------------------------------------------------------------------
(* Inputs *)

\* the module instance a Glue is attached to
TheInstance == "instance"

\* host values the table specification boxes
TableVals == {JsObject("a"), JsString("hi")}

\* wire values the module passes as ref: the singletons, and a handle for
\* every index up to MaxLen (the index MaxLen itself is never allocated)
Handles == {rsValueFromTyIdx(TY_OBJECT, i) : i \in 0..MaxLen}
Singletons == {UNDEFINED, NULL, NAN, TRUE_, FALSE_, GLOBAL, GLUE}
Refs == Singletons \cup Handles

(* The value table and its lifecycle *)
Next ==
    \/ GlueInit(TheInstance)
    \/ \E v \in TableVals : StoreJsValue(v, 0)
    \/ \E ref \in Refs : IncrementRefCount(ref)
    \/ \E ref \in Refs : DecrementRefCount(ref)

Spec == Init /\ [][Next]_vars

------------------------------------------------------------------------------
(* The codec: every kind of host value is stored into cell 0 and read back *)

\* doubles: 0, -0, Infinity, and a number whose low words read as an id
NegZeroBits == <<32768, 0, 0, 0>>
InfinityBits == <<32752, 0, 0, 0>>
OneAndABitBits == <<16368, 1, 0, 9>>
\* a NaN with a sign and a payload, as the host may hold one internally
PayloadNaNBits == <<65528, 1, 0, 9>>

CodecNumbers ==
    {JsNumber(ZeroBits), JsNumber(NegZeroBits), JsNumber(InfinityBits),
     JsNumber(OneAndABitBits), JsNaN, JsNumber(PayloadNaNBits)}

CodecBoxed == {JsString("hi"), JsObject("a"), JsFunction("f"), JsSymbol("s")}

CodecVals ==
    {JsUndefined, JsNull, JsTrue, JsFalse, JsGlobalThis, JsGlue}
        \cup CodecNumbers \cup CodecBoxed

NextCodec ==
    \/ GlueInit(TheInstance)
    \/ \E v \in CodecVals : StoreJsValue(v, 0)
    \/ ResolveJsValue(0)
    \/ \E ref \in Handles : DecrementRefCount(ref)

SpecCodec == Init /\ [][NextCodec]_vars

(* Handles: boxed values are stored into any cell, and released *)

HandleVals == {JsString("hi"), JsObject("a"), JsFunction("f")}

\* the handles of the two indices this specification allocates
HandleRefs == {rsValueFromTyIdx(TY_OBJECT, i) : i \in {0, 1}}

NextHandles ==
    \/ GlueInit(TheInstance)
    \/ \E v \in HandleVals, p \in {0, 1} : StoreJsValue(v, p)
    \/ \E ref \in HandleRefs : IncrementRefCount(ref)
    \/ \E ref \in HandleRefs : DecrementRefCount(ref)

SpecHandles == Init /\ [][NextHandles]_vars

(* call and construct: functions and objects are stored into cell 0, and
   called with their arguments at cell 0 and their result at cell 1 *)

CallVals == {JsFunction("f"), JsObject("a")}

\* a wire value with an id below ID_MAX that is no singleton pattern
NoSingleton == rsValueFromTyId(TY_DONT_CARE, 0)

CallRefs == HandleRefs \cup {UNDEFINED, NoSingleton}

\* what a host function does when it runs: it returns or throws one of these
HostVals == {JsUndefined, JsNaN, JsString("hi"), JsObject("a"), JsGlobalThis, JsGlue}
HostBehaviours == [throws : BOOLEAN, val : HostVals]

\* a constructor returns an object, or throws
ConstructorBehaviours ==
    {h \in HostBehaviours : h.throws \/ TypeOf(h.val) = "object"}

NextCall ==
    \/ GlueInit(TheInstance)
    \/ \E v \in CallVals : StoreJsValue(v, 0)
    \/ \E ref \in HandleRefs : DecrementRefCount(ref)
    \/ \E ref \in CallRefs, argsLen \in 0..MaxArgs, host \in HostBehaviours :
          Call(ref, 0, argsLen, 1, host)
    \/ \E ref \in CallRefs, argsLen \in 0..MaxArgs, host \in ConstructorBehaviours :
          Construct(ref, 0, argsLen, 1, host)

SpecCall == Init /\ [][NextCall]_vars

------------------------------------------------------------------------------
(* Claims about the value table, under Spec *)

InFree(i) == \E k \in 1..Len(freeIndices) : freeIndices[k] = i

\* the value is boxed by storeJsValueIntoRsValuePtr: not a singleton of its
\* first switch and not a number
IsBoxed(v) ==
    /\ v \notin {JsUndefined, JsNull, JsTrue, JsFalse, JsGlobalThis, JsGlue}
    /\ TypeOf(v) # "number"

\* C1: after any sequence of alloc, increment_ref_count and
\* decrement_ref_count calls, an index of the table is in freeIndices if and
\* only if its count is 0.
C1_FreeIffCountZero ==
    \A i \in 0..(Len(values) - 1) :
        InFree(i) <=> RefCountAt(refCounts, i) = CountNum(0)

\* C2: in every reachable state, also after a decrement_ref_count that ended
\* in the assertion and after an increment_ref_count of an index never
\* allocated, every entry of refCounts is an integer >= 0.
C2_CountsAreNaturals ==
    \A i \in DOMAIN refCounts :
        refCounts[i].k = "number" /\ refCounts[i].n >= 0

\* a step of storeJsValueIntoRsValuePtr that allocated a slot
StoreAllocStep == last'.op = "store" /\ ~last'.threw /\ IsBoxed(last'.val)

\* the index of the handle the latest operation wrote at its out pointer
WrittenIdx == rsValueIdx(mem[last.ptr])

\* C3 as claimed: alloc(x) leaves x with count 1 in the slot it returns, and
\* every index a decrement brought to 0 is the index the very next alloc
\* returns.
C3_VeryNextAllocReturnsZeroed ==
    [][StoreAllocStep =>
          /\ values'[WrittenIdx' + 1] = last'.val
          /\ RefCountAt(refCounts', WrittenIdx') = CountNum(1)
          /\ \A k \in 1..Len(zeroed) : WrittenIdx' = zeroed[k]]_vars

\* C3 amended: alloc(x) leaves x with count 1 in the slot it returns, and
\* the next alloc after decrements brought indices to 0 returns the index
\* brought to 0 last.
C3_NextAllocReturnsLastZeroed ==
    [][StoreAllocStep =>
          /\ values'[WrittenIdx' + 1] = last'.val
          /\ RefCountAt(refCounts', WrittenIdx') = CountNum(1)
          /\ (zeroed # <<>> => WrittenIdx' = zeroed[Len(zeroed)])]_vars

\* an alloc has returned index 0 of a table of two slots whose index 1 is
\* held: index 0 was freed by a decrement and is reused for the new value
C3_Witness ==
    /\ last.op = "store" /\ ~last.threw
    /\ Len(values) = 2
    /\ WrittenIdx = 0
    /\ values[1] = last.val
    /\ RefCountAt(refCounts, 0) = CountNum(1)
    /\ RefCountAt(refCounts, 1) = CountNum(1)

\* a step of decrement_ref_count that returned normally
DecrementStep == last'.op = "decrement" /\ ~last'.threw

\* C4: a decrement_ref_count that brings the count of its index to 0 pushes
\* the index onto the free list once and sets its slot to undefined; one
\* that leaves the count above 0 changes that count alone.
C4_DecrementFrame ==
    [][DecrementStep =>
          LET idx == rsValueIdx(last'.ref)
              count == RefCountAt(refCounts', idx)
          IN  /\ count = JsAdd(RefCountAt(refCounts, idx), -1)
              /\ \A j \in (DOMAIN refCounts \cup DOMAIN refCounts') \ {idx} :
                    RefCountAt(refCounts', j) = RefCountAt(refCounts, j)
              /\ count.n = 0 =>
                    /\ freeIndices' = Append(freeIndices, idx)
                    /\ values' = [values EXCEPT ![idx + 1] = JsUndefined]
                    /\ values'[idx + 1] = JsUndefined
              /\ count.n > 0 =>
                    /\ freeIndices' = freeIndices
                    /\ values' = values]_vars

\* a decrement has just brought the count of a held slot to 0
C4_Witness ==
    /\ last.op = "decrement" /\ ~last.threw
    /\ RefCountAt(refCounts, rsValueIdx(last.ref)) = CountNum(0)
    /\ freeIndices # <<>>
    /\ PopIdx(freeIndices) = rsValueIdx(last.ref)
    /\ values[rsValueIdx(last.ref) + 1] = JsUndefined
    /\ \E j \in DOMAIN refCounts : refCounts[j].n > 0

\* a step of increment_ref_count or decrement_ref_count on a wire value whose
\* id is below ID_MAX
SingletonCountStep ==
    /\ last'.op \in {"increment", "decrement"}
    /\ rsValueIsPredefined(last'.ref)

------------------------------------------------------------------------------
(* Claims about the codec, under SpecCodec and SpecHandles *)

\* a step of storeJsValueIntoRsValuePtr
StoreStep == last'.op = "store"

\* the values of the round trip: a number that is not NaN, a string, a
\* boolean, null, undefined, the global object, the Glue
IsRoundTripValue(v) ==
    \/ v \in {JsUndefined, JsNull, JsTrue, JsFalse, JsGlobalThis, JsGlue}
    \/ v.t = "string"
    \/ v.t = "number" /\ ~NumberIsNaN(v)

\* the fixed wire pattern of a singleton
WireOfSingleton(v) ==
    CASE v = JsUndefined -> UNDEFINED
      [] v = JsNull -> NULL
      [] v = JsTrue -> TRUE_
      [] v = JsFalse -> FALSE_
      [] v = JsGlobalThis -> GLOBAL
      [] v = JsGlue -> GLUE

\* C5: storing a value of the round trip completes without error, and
\* resolving the cell it wrote yields that value.
C5_RoundTrip ==
    (last.op = "store" /\ IsRoundTripValue(last.val)) =>
        /\ ~last.threw
        /\ resolveJsValueFromRsValuePtr(Table, mem, last.ptr)
              = [threw |-> FALSE, val |-> last.val]

TagsOfEncode == {TY_DONT_CARE, TY_OBJECT, TY_FUNCTION, TY_STRING}

\* C6: storing a NaN writes the pattern NAN whatever the NaN's own bits,
\* allocates nothing, and NAN resolves to NaN; NAN is none of the other
\* singleton patterns and no pattern of a tag and an index.
C6_NaNIsCanonical ==
    [][(StoreStep /\ NumberIsNaN(last'.val)) =>
          /\ ~last'.threw
          /\ mem'[last'.ptr] = NAN
          /\ UNCHANGED <<values, refCounts, freeIndices>>
          /\ resolveJsValueFromRsValuePtr(Table', mem', last'.ptr)
                = [threw |-> FALSE, val |-> JsNaN]
          /\ NAN \notin {UNDEFINED, NULL, TRUE_, FALSE_, GLOBAL, GLUE}
          /\ \A ty \in TagsOfEncode, i \in 0..MaxLen :
                rsValueFromTyIdx(ty, i) # NAN]_vars

\* a NaN with a payload was stored while the table holds a value
C6_Witness ==
    /\ last.op = "store"
    /\ last.val = JsNumber(PayloadNaNBits)
    /\ mem[last.ptr] = NAN
    /\ \E i \in DOMAIN refCounts : refCounts[i] = CountNum(1)

\* the tag of a kind of value, as the claim gives it
TagOfKind(v) ==
    CASE TypeOf(v) = "object" -> 1
      [] TypeOf(v) = "function" -> 2
      [] TypeOf(v) = "string" -> 3

\* a cell of module memory holds a handle: a NaN that is no singleton pattern
IsHandle(w) == FloatIsNaN(w) /\ w \notin Singletons

\* storing a boxed value allocates one slot with count 1 holding the value
\* and writes QUIET_NAN | tag << 32 | (ID_MAX + index)
StoreBoxes ==
    StoreAllocStep =>
        LET idx == WrittenIdx'
        IN  /\ mem'[last'.ptr] =
                  <<QUIET_NAN[1], TagOfKind(last'.val),
                    (ID_MAX + idx) \div W16, (ID_MAX + idx) % W16>>
            /\ rsValueId(mem'[last'.ptr]) >= ID_MAX
            /\ idx \in 0..(Len(values') - 1)
            /\ values'[idx + 1] = last'.val
            /\ refCounts' = SetCount(refCounts, idx, CountNum(1))
            /\ \A j \in 0..(Len(values) - 1) :
                  j # idx => values'[j + 1] = values[j + 1]
            /\ \A j \in Len(values)..(Len(values') - 1) :
                  j # idx => values'[j + 1] = JsUndefined

\* every handle in module memory whose index has a count above 0 carries
\* the tag of the kind of the value stored at its index
LiveHandlesCarryKind ==
    \A p \in Ptrs :
        (IsHandle(mem[p]) /\ RefCountAt(refCounts, rsValueIdx(mem[p])).n > 0) =>
            /\ rsValueId(mem[p]) >= ID_MAX
            /\ TypeOf(values[rsValueIdx(mem[p]) + 1]) \in {"object", "function", "string"}
            /\ rsValueTy(mem[p]) = TagOfKind(values[rsValueIdx(mem[p]) + 1])

\* C7 as claimed: storing a boxed value allocates one slot and writes its
\* tag and index, and a handle whose count is above 0 carries the tag of the
\* kind of the value stored at its index.
C7_LiveHandleTagIsKind ==
    [][StoreBoxes /\ LiveHandlesCarryKind']_vars

\* a slot changes only when a store allocates it or a decrement brings its
\* count to 0
SlotsChangeByAllocOrFree ==
    \A j \in 0..(Len(values) - 1) :
        values'[j + 1] # values[j + 1] =>
            \/ StoreAllocStep /\ WrittenIdx' = j
            \/ /\ last'.op = "decrement"
               /\ rsValueIdx(last'.ref) = j
               /\ RefCountAt(refCounts', j) = CountNum(0)

\* C7 amended: storing a boxed value allocates one slot and writes its tag
\* and index; the handle carries the tag of the kind of the value stored at
\* its index from then until a decrement brings the count of the index to 0
\* or a later store allocates the index again.
C7_HandleTagIsKindUntilFreed ==
    [][/\ StoreBoxes
       /\ StoreAllocStep =>
             rsValueTy(mem'[last'.ptr]) = TagOfKind(values'[WrittenIdx' + 1])
       /\ SlotsChangeByAllocOrFree]_vars

\* a string was stored into a slot an object was freed from, and the
\* object's handle is still in module memory
C7_Witness ==
    /\ last.op = "store" /\ last.val = JsString("hi") /\ last.ptr = 1
    /\ mem[1] = rsValueFromTyIdx(3, 0)
    /\ mem[0] = rsValueFromTyIdx(1, 0)
    /\ values[1] = JsString("hi")
    /\ RefCountAt(refCounts, 0) = CountNum(1)

\* C8: storing undefined, null, true, false, the global object or the Glue
\* writes the singleton's wire pattern and leaves the table alone.
C8_SingletonsStoreInPlace ==
    [][(StoreStep /\ last'.val \in {JsUndefined, JsNull, JsTrue, JsFalse,
                                    JsGlobalThis, JsGlue}) =>
          /\ ~last'.threw
          /\ mem'[last'.ptr] = WireOfSingleton(last'.val)
          /\ UNCHANGED <<values, refCounts, freeIndices>>]_vars

------------------------------------------------------------------------------
(* Claims about call and construct, under SpecCall *)

\* C9: when the host function or constructor throws e, call and construct
\* return false, the cell at outPtr resolves to e, and no exception leaves
\* the operation.
C9_ThrownValueIsReturned ==
    (last.op \in {"call", "construct"} /\ last.host = "threw") =>
        /\ ~last.threw
        /\ last.ret = JsFalse
        /\ resolveJsValueFromRsValuePtr(Table, mem, last.ptr)
              = [threw |-> FALSE, val |-> last.val]

------------------------------------------------------------------------------
(* Claims about protocol violations, under Spec *)

\* a step of decrement_ref_count on a dynamic index whose count is 0, or
\* that was never allocated: allocValue alone writes a number into a hole of
\* refCounts, so such an index reads undefined, or NaN after an increment
OverDecrementStep ==
    /\ last'.op = "decrement"
    /\ ~rsValueIsPredefined(last'.ref)
    /\ \/ RefCountAt(refCounts, rsValueIdx(last'.ref)) = CountNum(0)
       \/ RefCountAt(refCounts, rsValueIdx(last'.ref)).k # "number"

\* C11: decrement_ref_count of a dynamic index whose count is already 0, or
\* of an index never allocated, ends in the assertion and does not push the
\* index onto the free list.
C11_OverDecrementIsFatal ==
    [][OverDecrementStep =>
          /\ last'.threw
          /\ last'.ret = AssertionError
          /\ freeIndices' = freeIndices]_vars

\* a decrement of a never allocated index has ended in the assertion, in a
\* table where an earlier decrement of a freed index did
C11_Witness ==
    /\ last.op = "decrement" /\ last.threw
    /\ RefCountAt(refCounts, rsValueIdx(last.ref)) = CountNaN
    /\ \E i \in 0..(Len(values) - 1) :
          InFree(i) /\ RefCountAt(refCounts, i) = CountNum(-1)

------------------------------------------------------------------------------
(* Bytes and text of module memory.  The byte at address a is byte a % 8 of
   cell a \div 8, little-endian: the low byte of the last word comes first.
   A text is the sequence of its code points. *)

Min(a, b) == IF a <= b THEN a ELSE b

MemBytes(m) == 8 * Cardinality(DOMAIN m)

\* getMemoryView(Uint8Array)[a]
ByteAt(m, a) ==
    LET w == m[a \div 8][4 - ((a % 8) \div 2)]
    IN  IF a % 2 = 0 THEN w % 256 ELSE w \div 256

\* getMemoryView(Uint8Array).subarray(ptr, ptr + len): clamped to the buffer
Subarray(m, ptr, len) ==
    [i \in 1..Min(len, MemBytes(m) - ptr) |-> ByteAt(m, ptr + (i - 1))]

\* subarray(ptr, ptr + len).set(buf), for a buf that fits
SetBytes(m, ptr, buf) ==
    LET byte(a) == IF a >= ptr /\ a < ptr + Len(buf)
                   THEN buf[a - ptr + 1] ELSE ByteAt(m, a)
    IN  [c \in DOMAIN m |->
            [j \in 1..4 |-> byte(8 * c + 2 * (4 - j))
                              + (256 * byte(8 * c + 2 * (4 - j) + 1))]]

\* DataView.setUint32(a, v, true), for a a multiple of 4 and v < 2^31
SetUint32(m, a, v) ==
    IF a % 8 = 0
    THEN [m EXCEPT ![a \div 8] = <<@[1], @[2], v \div W16, v % W16>>]
    ELSE [m EXCEPT ![a \div 8] = <<v \div W16, v % W16, @[3], @[4]>>]

\* DataView.getUint32(a, true), as the module reads what setUint32 wrote
GetUint32(m, a) ==
    IF a % 8 = 0
    THEN m[a \div 8][3] * W16 + m[a \div 8][4]
    ELSE m[a \div 8][1] * W16 + m[a \div 8][2]

\* U+FFFD, which the decoder puts in the place of bytes that are not UTF-8,
\* and U+FEFF, the byte order mark
REPLACEMENT == 65533
BOM == 65279

\* the UTF-8 decoder of TextDecoder: one code point per well-formed
\* sequence, one U+FFFD per maximal ill-formed prefix
RECURSIVE Utf8Decode(_)
Utf8Decode(bs) ==
    IF bs = <<>> THEN <<>>
    ELSE LET b == bs[1]
             n == Len(bs)
             need == IF b < 128 THEN 0
                     ELSE IF b >= 194 /\ b <= 223 THEN 1
                     ELSE IF b >= 224 /\ b <= 239 THEN 2
                     ELSE IF b >= 240 /\ b <= 244 THEN 3
                     ELSE -1
             lo == IF b = 224 THEN 160 ELSE IF b = 240 THEN 144 ELSE 128
             hi == IF b = 237 THEN 159 ELSE IF b = 244 THEN 143 ELSE 191
             ok(k) == /\ k <= n
                      /\ IF k = 2 THEN bs[k] >= lo /\ bs[k] <= hi
                         ELSE bs[k] >= 128 /\ bs[k] <= 191
             good == Cardinality({j \in 1..need : \A i \in 1..j : ok(i + 1)})
             cp == CASE need = 1 -> (b - 192) * 64 + (bs[2] - 128)
                     [] need = 2 -> (b - 224) * 4096 + (bs[2] - 128) * 64
                                        + (bs[3] - 128)
                     [] need = 3 -> (b - 240) * 262144 + (bs[2] - 128) * 4096
                                        + (bs[3] - 128) * 64 + (bs[4] - 128)
         IN  IF need = 0 THEN <<b>> \o Utf8Decode(Tail(bs))
             ELSE IF need = -1 THEN <<REPLACEMENT>> \o Utf8Decode(Tail(bs))
             ELSE IF good = need
             THEN <<cp>> \o Utf8Decode(SubSeq(bs, need + 2, n))
             ELSE <<REPLACEMENT>> \o Utf8Decode(SubSeq(bs, good + 2, n))

\* new TextDecoder().decode(bytes): UTF-8, and a leading byte order mark is
\* not part of the text (ignoreBOM is false)
TextDecoderDecode(bs) ==
    LET cps == Utf8Decode(bs)
    IN  IF cps # <<>> /\ cps[1] = BOM THEN Tail(cps) ELSE cps

\* new TextEncoder().encode(s): UTF-8
RECURSIVE TextEncoderEncode(_)
TextEncoderEncode(cps) ==
    IF cps = <<>> THEN <<>>
    ELSE LET c == cps[1]
             one == IF c < 128 THEN <<c>>
                    ELSE IF c < 2048
                    THEN <<192 + (c \div 64), 128 + (c % 64)>>
                    ELSE IF c < 65536
                    THEN <<224 + (c \div 4096), 128 + ((c \div 64) % 64),
                           128 + (c % 64)>>
                    ELSE <<240 + (c \div 262144), 128 + ((c \div 4096) % 64),
                           128 + ((c \div 64) % 64), 128 + (c % 64)>>
         IN  one \o TextEncoderEncode(Tail(cps))

\* mutant: every byte read as one code point (Latin-1)
decodeStringLatin1(m, ptr, len) == Subarray(m, ptr, len)

decodeString(m, ptr, len) == TextDecoderDecode(Subarray(m, ptr, len))
encodeString(s) == TextEncoderEncode(s)

\* the module stores bytes into its own memory
ModuleWrite(ptr, bytes) ==
    /\ Attached
    /\ ptr + Len(bytes) <= MemBytes(mem)
    /\ mem' = SetBytes(mem, ptr, bytes)
    /\ last' = Op("write", JsString(bytes), ZeroBits, ptr, FALSE, JsUndefined,
                  "none", NoFrame)
    /\ UNCHANGED <<instance, values, refCounts, freeIndices, zeroed>>
    /\ UNCHANGED <<stack, pageVars, entered, handleVars>>
    /\ UNCHANGED viewVars

------------------------------------------------------------------------------
(* get *)

\* the names of the properties of the host objects
PropM == <<109>>
PropO == <<111>>

\* Reflect.get(target, prop): [threw, val].  The host object a has a method
\* m and an object o, the global object has a method m; the methods are
\* ordinary functions, which take their receiver from the call.
ReflectGet(target, prop) ==
    IF TypeOf(target) \notin {"object", "function"} \/ target = JsNull
    THEN [threw |-> TRUE, val |-> TypeError]
    ELSE [threw |-> FALSE,
          val |-> CASE target = JsObject("a") /\ prop = PropM -> JsFunction("f")
                    [] target = JsObject("a") /\ prop = PropO -> JsObject("b")
                    [] target = JsGlobalThis /\ prop = PropM -> JsFunction("g")
                    [] OTHER -> JsUndefined]

\* mutant: the property is stored as it was found
BindNever(value, target) == value

\* if (value instanceof Function) value = value.bind(target)
BindIfFunction(value, target) ==
    IF value.t = "function" THEN JsBound(value, target) ELSE value

\* env.get: [threw, err, T, mem, idx, val, views], val the property found,
\* views the types it called getMemoryView with
get(T, m, ref, propPtr, propLen, outPtr) ==
    LET target == resolveJsValueFromRsValue(T, ref)
        prop == decodeString(m, propPtr, propLen)
        found == ReflectGet(target.val, prop)
        r == storeJsValueIntoRsValuePtr(T, m,
                 BindIfFunction(found.val, target.val), outPtr)
    IN  IF target.threw
        THEN [threw |-> TRUE, err |-> target.val, T |-> T, mem |-> m,
              idx |-> -1, val |-> JsUndefined, views |-> {}]
        ELSE IF found.threw
        THEN [threw |-> TRUE, err |-> found.val, T |-> T, mem |-> m,
              idx |-> -1, val |-> JsUndefined, views |-> {Uint8Array}]
        ELSE [threw |-> r.threw, err |-> r.err, T |-> r.T, mem |-> r.mem,
              idx |-> r.idx, val |-> found.val, views |-> {Uint8Array, DataView}]

\* env.get(ref, propPtr, propLen, outPtr)
Get(ref, propPtr, propLen, outPtr) ==
    /\ Attached
    /\ LET r == get(Table, mem, ref, propPtr, propLen, outPtr)
       IN  /\ SetTable(r.T)
           /\ mem' = r.mem
           /\ zeroed' = IF r.idx >= 0 THEN <<>> ELSE zeroed
           /\ last' = Op("get", r.val, ref, outPtr, r.threw, r.err, "none",
                         NoFrame)
    /\ UNCHANGED instance
    /\ UNCHANGED <<stack, pageVars, entered, handleVars>>
    /\ Views(get(Table, mem, ref, propPtr, propLen, outPtr).views)

(* get and call: the object a is stored into cell 0, the name of a property
   is written at address 8, properties are read into cell 0 and the handles
   called with their result at cell 0 *)

GetRefs == HandleRefs \cup {GLOBAL, UNDEFINED}

GetHostBehaviours == [throws : BOOLEAN, val : {JsUndefined}]

NextGet ==
    \/ GlueInit(TheInstance)
    \/ StoreJsValue(JsObject("a"), 0)
    \/ \E prop \in {PropM, PropO} : ModuleWrite(8, prop)
    \/ \E ref \in GetRefs : Get(ref, 8, 1, 0)
    \/ \E ref \in HandleRefs : DecrementRefCount(ref)
    \/ \E ref \in HandleRefs, host \in GetHostBehaviours : Call(ref, 0, 0, 0, host)

SpecGet == Init /\ [][NextGet]_vars

\* C12: when get finds a function, the value it stores is that function
\* bound to the value ref resolves to; and a call of a handle that resolves
\* to a function bound by get runs that function with the target as its
\* receiver.
C12_GetBindsToTarget ==
    [][/\ (last'.op = "get" /\ ~last'.threw /\ last'.val.t = "function") =>
             /\ values'[WrittenIdx' + 1] =
                   JsBound(last'.val, resolveJsValueFromRsValue(Table, last'.ref).val)
             /\ resolveJsValueFromRsValue(Table', mem'[last'.ptr]).val =
                   values'[WrittenIdx' + 1]
       /\ (last'.op = "call" /\ last'.host # "none"
              /\ IsBound(resolveJsValueFromRsValue(Table, last'.ref).val)) =>
             /\ last'.frame.fn = resolveJsValueFromRsValue(Table, last'.ref).val.bound
             /\ last'.frame.recv = resolveJsValueFromRsValue(Table, last'.ref).val.this
             /\ last'.frame.fn \in {JsFunction("f"), JsFunction("g")}
             /\ last'.frame.recv =
                   IF last'.frame.fn = JsFunction("f") THEN JsObject("a")
                   ELSE JsGlobalThis]_vars

\* the method m of the object a, read by get while the handle of a was held,
\* has been called through its handle and has run with a as its receiver
C12_Witness ==
    /\ last.op = "call" /\ ~last.threw /\ last.host = "returned"
    /\ last.frame = Frame(JsFunction("f"), JsObject("a"))

------------------------------------------------------------------------------
(* string_new and string_get *)

\* env.string_new: the result of storeJsValueIntoRsValuePtr
string_new(T, m, ptr, len, outPtr) ==
    storeJsValueIntoRsValuePtr(T, m, JsString(decodeString(m, ptr, len)), outPtr)

\* the texts the host's conversion to a string gives
TextNull == <<110, 117, 108, 108>>
TextTrue == <<116, 114, 117, 101>>
TextFalse == <<102, 97, 108, 115, 101>>
TextNaN == <<78, 97, 78>>
TextObject == <<91, 111, 98, 106, 101, 99, 116, 32, 79, 98, 106, 101, 99, 116, 93>>
TextFunction == <<102, 117, 110, 99, 116, 105, 111, 110, 32, 40, 41, 32, 123, 32,
                  91, 110, 97, 116, 105, 118, 101, 32, 99, 111, 100, 101, 93,
                  32, 125>>

\* the conversion TextEncoder.encode applies to its argument: [threw, val].
\* undefined takes the parameter's default, the empty text; a symbol has no
\* conversion; an ordinary object reads [object Object], a bound function
\* function () { [native code] }
ToUSVString(v) ==
    CASE v.t = "string" -> [threw |-> FALSE, val |-> v.s]
      [] v.t = "undefined" -> [threw |-> FALSE, val |-> <<>>]
      [] v.t = "null" -> [threw |-> FALSE, val |-> TextNull]
      [] v.t = "boolean" -> [threw |-> FALSE, val |-> IF v.b THEN TextTrue ELSE TextFalse]
      [] v.t = "number" -> [threw |-> FALSE, val |-> TextNaN]
      [] v.t = "object" -> [threw |-> FALSE, val |-> TextObject]
      [] v.t = "function" -> [threw |-> FALSE, val |-> TextFunction]
      [] OTHER -> [threw |-> TRUE, val |-> TypeError]

\* assert(truth, msg) throws when truth is falsy; a text is falsy when empty
AssertThrows(truth) == truth = ""

\* assert(typeof value, "string") of string_get: its first argument is the
\* name of the type, its second the message
StringGetAssertThrows(value) == AssertThrows(TypeOf(value))

\* env.string_get: [threw, err, mem, val, alloc, views]; ptr is what the
\* module's alloc export returns, alloc whether it was called, views the
\* types it called getMemoryView with (after alloc returned)
string_get(T, m, ref, ptrPtr, lenPtr, ptr) ==
    LET value == resolveJsValueFromRsValue(T, ref)
        text == ToUSVString(value.val)
        buf == encodeString(text.val)
        m1 == SetBytes(m, ptr, buf)
        m2 == SetUint32(m1, ptrPtr, ptr)
        m3 == SetUint32(m2, lenPtr, Len(buf))
    IN  IF value.threw
        THEN [threw |-> TRUE, err |-> value.val, mem |-> m,
              val |-> JsUndefined, alloc |-> FALSE, views |-> {}]
        ELSE IF StringGetAssertThrows(value.val)
        THEN [threw |-> TRUE, err |-> AssertionError, mem |-> m,
              val |-> value.val, alloc |-> FALSE, views |-> {}]
        ELSE IF text.threw
        THEN [threw |-> TRUE, err |-> text.val, mem |-> m,
              val |-> value.val, alloc |-> FALSE, views |-> {}]
        ELSE IF ptr + Len(buf) > MemBytes(m)
        THEN \* set of a source that does not fit
             [threw |-> TRUE, err |-> RangeError, mem |-> m,
              val |-> value.val, alloc |-> TRUE, views |-> {Uint8Array}]
        ELSE [threw |-> FALSE, err |-> JsUndefined, mem |-> m3,
              val |-> value.val, alloc |-> TRUE, views |-> {Uint8Array, DataView}]

\* env.string_new(ptr, len, outPtr); the bytes it is given are recorded
StringNew(ptr, len, outPtr) ==
    /\ Attached
    /\ ptr + len <= MemBytes(mem)
    /\ LET r == string_new(Table, mem, ptr, len, outPtr)
       IN  /\ SetTable(r.T)
           /\ mem' = r.mem
           /\ zeroed' = IF r.idx >= 0 THEN <<>> ELSE zeroed
           /\ last' = Op("string_new", JsString(Subarray(mem, ptr, len)),
                         ZeroBits, outPtr, r.threw, r.err, "none", NoFrame)
    /\ UNCHANGED instance
    /\ UNCHANGED <<stack, pageVars, entered, handleVars>>
    /\ Views({Uint8Array, DataView})

\* env.string_get(ref, ptrPtr, lenPtr); ptr is the pointer the module's
\* alloc export returns, a region of its memory that holds the bytes.  The
\* export makes room by memory.grow(delta) when grows says so, before
\* string_get takes its views.
StringGetAlloc(ref, ptrPtr, lenPtr, ptr, grows, delta) ==
    /\ Attached
    /\ LET r == string_get(Table, mem, ref, ptrPtr, lenPtr, ptr)
           grown == r.alloc /\ grows
           bufs == IF grown THEN MemoryGrow(buffers, delta) ELSE buffers
       IN  /\ r.alloc => ~r.threw
           /\ grows => r.alloc
           /\ Len(bufs) <= MaxBuffers
           /\ mem' = r.mem
           /\ buffers' = bufs
           /\ GetMemoryViews(r.views, bufs)
           /\ last' = Op("string_get", r.val, ref, ptrPtr, r.threw, r.err,
                         IF r.alloc THEN "alloc" ELSE "none", NoFrame)
    /\ UNCHANGED <<instance, values, refCounts, freeIndices, zeroed>>
    /\ UNCHANGED <<stack, pageVars, entered, handleVars>>

\* env.string_get(ref, ptrPtr, lenPtr) with an alloc export that finds room
StringGet(ref, ptrPtr, lenPtr, ptr) ==
    StringGetAlloc(ref, ptrPtr, lenPtr, ptr, FALSE, 0)

(* strings: the module writes a byte string at address 8 and calls
   string_new for it, which writes its handle into cell 0; string_get writes the pointer at address 0
   and the length at address 4, after the module's alloc export returned
   address 12 *)

StrSrcPtr == 8
StrPtrPtr == 0
StrLenPtr == 4
AllocPtrs == {12}

\* "hi", e acute, a byte that is not UTF-8, a byte order mark before "h"
ByteStrings == {<<104, 105>>, <<195, 169>>, <<255>>, <<239, 187, 191, 104>>}

StringRefs == HandleRefs \cup {UNDEFINED, NULL}

\* the module calls string_new for the byte string it has just written
StringNewOfWritten ==
    /\ last.op = "write"
    /\ StringNew(StrSrcPtr, Len(last.val.s), 0)

NextStrings ==
    \/ GlueInit(TheInstance)
    \/ \E b \in ByteStrings : ModuleWrite(StrSrcPtr, b)
    \/ StringNewOfWritten
    \/ StoreJsValue(JsObject("a"), 0)
    \/ \E ref \in StringRefs, p \in AllocPtrs : StringGet(ref, StrPtrPtr, StrLenPtr, p)

SpecStrings == Init /\ [][NextStrings]_vars

\* C13: string_get of a ref that resolves to a value that is not a string
\* ends in the assertion, without a call of the module's alloc export and
\* without a write into module memory.
C13_NonStringIsFatal ==
    [][(/\ last'.op = "string_get"
        /\ ~resolveJsValueFromRsValue(Table, last'.ref).threw
        /\ TypeOf(resolveJsValueFromRsValue(Table, last'.ref).val) # "string") =>
          /\ last'.threw
          /\ last'.ret = AssertionError
          /\ last'.host = "none"
          /\ mem' = mem]_vars


\* what string_get(h) does after string_new gave the handle h for the bytes
\* b: it returns normally after a call of alloc, writes the pointer alloc
\* returned and the length of b, and leaves b at that pointer
StringGetGivesBack(b) ==
    /\ ~last'.threw
    /\ resolveJsValueFromRsValue(Table', mem'[last'.ptr]) =
          [threw |-> FALSE, val |-> JsString(TextDecoderDecode(b))]
    /\ \A p \in AllocPtrs :
          LET r == string_get(Table', mem', mem'[last'.ptr], StrPtrPtr, StrLenPtr, p)
          IN  /\ ~r.threw /\ r.alloc
              /\ GetUint32(r.mem, StrPtrPtr) = p
              /\ GetUint32(r.mem, StrLenPtr) = Len(b)
              /\ Subarray(r.mem, p, Len(b)) = b

\* C14 as claimed: for every byte string b, string_new gives a handle that
\* resolves to the text of b, and string_get of the handle gives back the
\* length of b and the bytes of b.
C14_EveryByteStringComesBack ==
    [][last'.op = "string_new" => StringGetGivesBack(last'.val.s)]_vars

\* well-formed UTF-8 (the Unicode standard's table of byte sequences)
RECURSIVE IsWellFormedUtf8(_)
IsWellFormedUtf8(bs) ==
    IF bs = <<>> THEN TRUE
    ELSE LET b == bs[1]
             n == Len(bs)
             in(k, lo, hi) == k <= n /\ bs[k] >= lo /\ bs[k] <= hi
             rest(k) == IsWellFormedUtf8(SubSeq(bs, k, n))
         IN  \/ b < 128 /\ rest(2)
             \/ b >= 194 /\ b <= 223 /\ in(2, 128, 191) /\ rest(3)
             \/ b = 224 /\ in(2, 160, 191) /\ in(3, 128, 191) /\ rest(4)
             \/ b \in (225..236) \cup {238, 239}
                  /\ in(2, 128, 191) /\ in(3, 128, 191) /\ rest(4)
             \/ b = 237 /\ in(2, 128, 159) /\ in(3, 128, 191) /\ rest(4)
             \/ b = 240 /\ in(2, 144, 191) /\ in(3, 128, 191)
                  /\ in(4, 128, 191) /\ rest(5)
             \/ b \in 241..243 /\ in(2, 128, 191) /\ in(3, 128, 191)
                  /\ in(4, 128, 191) /\ rest(5)
             \/ b = 244 /\ in(2, 128, 143) /\ in(3, 128, 191)
                  /\ in(4, 128, 191) /\ rest(5)

\* the bytes begin with the byte order mark EF BB BF
BeginsWithByteOrderMark(bs) ==
    Len(bs) >= 3 /\ SubSeq(bs, 1, 3) = <<239, 187, 191>>

\* C14 amended: for every byte string b that is well-formed UTF-8 and does
\* not begin with a byte order mark, string_new gives a handle that resolves
\* to the text of b, and string_get of the handle gives back the length of b
\* and the bytes of b.
C14_Utf8ComesBack ==
    [][(/\ last'.op = "string_new"
        /\ IsWellFormedUtf8(last'.val.s)
        /\ ~BeginsWithByteOrderMark(last'.val.s)) =>
          StringGetGivesBack(last'.val.s)]_vars

\* string_get of a handle of the text "hi" has written the pointer 12 and
\* the length 2, and the bytes 0x68, 0x69 are at address 12
C14_Witness ==
    /\ last.op = "string_get" /\ ~last.threw /\ last.host = "alloc"
    /\ last.val = JsString(<<104, 105>>)
    /\ \E i \in 0..(Len(values) - 1) :
          last.ref = rsValueFromTyIdx(TY_OBJECT, i) /\ values[i + 1] = last.val
    /\ GetUint32(mem, StrPtrPtr) = 12
    /\ GetUint32(mem, StrLenPtr) = 2
    /\ Subarray(mem, 12, 2) = <<104, 105>>

------------------------------------------------------------------------------
(* The frame loop of src/shin.js *)

\* what the module's callback does in a tick: it returns an i32, or traps
CallbackResults ==
    {[threw |-> FALSE, val |-> 0], [threw |-> FALSE, val |-> 1],
     [threw |-> FALSE, val |-> 7], [threw |-> TRUE, val |-> 0]}

\* mutant: a tick schedules the next whatever the callback returned
TickReschedulesAlways(result) == ~result.threw

\* if (wasm.exports.__indirect_function_table.get?.(f)(ctx)): the callback
\* returned, and what it returned is truthy
TickReschedules(result) == ~result.threw /\ result.val # 0

\* requestAnimationFrame(tick), for the tick of loop i
requestAnimationFrame(frames, i) == Append(frames, i)

\* the callback has not run yet
NoResult == [threw |-> FALSE, val |-> -1]

\* env.request_animation_frame_loop(f, ctx).  A loop records its scheduling
\* calls, its ticks, what the callback of its latest tick did, and whether a
\* callback of it has returned false (or 0)
RequestAnimationFrameLoop(f, ctx) ==
    /\ Len(loops) < MaxLoops
    /\ loops' = Append(loops, [f |-> f, ctx |-> ctx, calls |-> 1, ticks |-> 0,
                               result |-> NoResult, cancelled |-> FALSE])
    /\ animationFrames' = requestAnimationFrame(animationFrames, Len(loops) + 1)
    /\ UNCHANGED glueVars
    /\ UNCHANGED externVars

\* the host's frame scheduler runs the callback it has held longest: tick()
Tick(result) ==
    /\ animationFrames # <<>>
    /\ LET i == Head(animationFrames)
           ticked == [loops EXCEPT
                         ![i].ticks = @ + 1,
                         ![i].result = result,
                         ![i].cancelled = @ \/ (~result.threw /\ result.val = 0)]
       IN  /\ loops[i].ticks < MaxTicks
           /\ IF TickReschedules(result)
              THEN /\ animationFrames' =
                         requestAnimationFrame(Tail(animationFrames), i)
                   /\ loops' = [ticked EXCEPT ![i].calls = @ + 1]
              ELSE /\ animationFrames' = Tail(animationFrames)
                   /\ loops' = ticked
    /\ UNCHANGED glueVars
    /\ UNCHANGED externVars

\* the callbacks of the module: entries of its function table, and their
\* context pointers
Callbacks == {1, 2}
Contexts == {0}

NextFrames ==
    \/ \E f \in Callbacks, ctx \in Contexts : RequestAnimationFrameLoop(f, ctx)
    \/ \E result \in CallbackResults : Tick(result)

SpecFrames == Init /\ [][NextFrames]_vars

\* the number of callbacks of loop i the frame scheduler holds
Pending(frames, i) == Cardinality({k \in 1..Len(frames) : frames[k] = i})

\* C15: a tick whose callback returns true makes one scheduling call, after
\* which the scheduler holds one callback of the loop; a tick whose callback
\* returns false (or 0) makes none, and from then on the loop makes no
\* scheduling call, has no tick, and the scheduler holds no callback of it.
C15_FrameLoop ==
    [][\A i \in DOMAIN loops :
          LET ticked == loops'[i].ticks = loops[i].ticks + 1
              result == loops'[i].result
          IN  /\ loops'[i].ticks # loops[i].ticks => ticked
              /\ (ticked /\ ~result.threw /\ result.val # 0) =>
                    /\ loops'[i].calls = loops[i].calls + 1
                    /\ Pending(animationFrames', i) = 1
              /\ (ticked /\ ~result.threw /\ result.val = 0) =>
                    /\ loops'[i].calls = loops[i].calls
                    /\ Pending(animationFrames', i) = 0
                    /\ loops'[i].cancelled
              /\ ~ticked => loops'[i].calls = loops[i].calls
              /\ loops[i].cancelled =>
                    /\ loops'[i] = loops[i]
                    /\ Pending(animationFrames, i) = 0
                    /\ Pending(animationFrames', i) = 0]_vars

\* a loop was cancelled by its third tick, after three scheduling calls,
\* while the scheduler holds a callback of another loop
C15_Witness ==
    \E i, j \in DOMAIN loops :
        /\ loops[i].cancelled
        /\ loops[i].ticks = 3 /\ loops[i].calls = 3
        /\ Pending(animationFrames, i) = 0
        /\ ~loops[j].cancelled /\ loops[j].ticks > 0
        /\ Pending(animationFrames, j) = 1

------------------------------------------------------------------------------
(* closure_new, and a call whose host function enters the module again *)

\* callByPtrWrapped: the function closure_new makes, which calls the entry
\* callByPtrIdx of the module's function table with ptr
JsClosure(callByPtrIdx, ptr) ==
    [t |-> "function", callByPtr |-> callByPtrIdx, ptr |-> ptr]
IsClosure(v) == v.t = "function" /\ "callByPtr" \in DOMAIN v

\* env.closure_new: the result of storeJsValueIntoRsValuePtr
closure_new(T, m, callByPtrIdx, ptr, outPtr) ==
    storeJsValueIntoRsValuePtr(T, m, JsClosure(callByPtrIdx, ptr), outPtr)

\* env.closure_new(callByPtrIdx, ptr, outPtr)
ClosureNew(callByPtrIdx, ptr, outPtr) ==
    /\ Attached
    /\ LET r == closure_new(Table, mem, callByPtrIdx, ptr, outPtr)
       IN  /\ SetTable(r.T)
           /\ mem' = r.mem
           /\ zeroed' = IF r.idx >= 0 THEN <<>> ELSE zeroed
           /\ last' = Op("closure_new", JsClosure(callByPtrIdx, ptr), ZeroBits,
                         outPtr, r.threw, r.err, "none", NoFrame)
    /\ UNCHANGED <<instance, stack, pageVars, entered, handleVars>>
    /\ Views({DataView})

\* a closure the host function can call is in the table
ClosureHeld(T) == \E k \in 1..Len(T.values) : IsClosure(T.values[k])

\* env.call up to the moment the host function has entered the module
\* through a closure: the target and the arguments are resolved, the host
\* function is running, and control is in the module
CallEnter(ref, argsPtr, argsLen, outPtr) ==
    /\ Attached
    /\ Len(stack) < MaxDepth
    /\ ClosureHeld(Table)
    /\ LET entry == InvokeTarget(Table, mem, ref, argsPtr, argsLen,
                                 [throws |-> FALSE, val |-> JsUndefined])
       IN  /\ entry.ran
           /\ stack' = Append(stack, [ref |-> ref, outPtr |-> outPtr,
                                      frame |-> entry.frame])
           /\ last' = Op("enter", JsUndefined, ref, outPtr, FALSE, JsUndefined,
                         "entered", entry.frame)
    /\ UNCHANGED <<instance, values, refCounts, freeIndices, mem, zeroed, pageVars, entered, handleVars>>
    /\ Views({DataView})

\* the host function of the innermost call completes as host says, and
\* env.call stores its result and returns; a closure itself returns undefined
CallReturn(host) ==
    /\ stack # <<>>
    /\ LET top == stack[Len(stack)]
           body == [threw |-> host.throws, val |-> host.val, ran |-> TRUE,
                    frame |-> top.frame]
           r == callCompletion(Table, mem, body, top.outPtr)
       IN  /\ IsClosure(top.frame.fn) => (host.throws \/ host.val = JsUndefined)
           /\ SetTable(r.T)
           /\ mem' = r.mem
           /\ zeroed' = IF r.idx >= 0 THEN <<>> ELSE zeroed
           /\ stack' = SubSeq(stack, 1, Len(stack) - 1)
           /\ last' = Op("call", host.val, top.ref, top.outPtr, r.threw,
                         IF r.threw THEN r.err ELSE r.ret, r.host, r.frame)
    /\ UNCHANGED <<instance, pageVars, entered, handleVars>>
    /\ Views({DataView})

(* re-entrant calls: a closure and a host function are stored into cell 0
   and called with their result at cell 1; while a host function runs, the
   module makes a string of the byte at address 8 (its handle goes into cell
   0), counts references up and down, and calls again *)

ReentrantHostBehaviours ==
    {[throws |-> FALSE, val |-> JsUndefined], [throws |-> FALSE, val |-> JsObject("a")],
     [throws |-> TRUE, val |-> JsObject("e")]}

\* control is in the module, under a host function that env.call invoked
Nested == stack # <<>>

NestedStringNew == Nested /\ StringNew(StrSrcPtr, 1, 0)
NestedIncrementRefCount(ref) == Nested /\ IncrementRefCount(ref)
NestedDecrementRefCount(ref) == Nested /\ DecrementRefCount(ref)

\* before it calls, the module has made a closure and holds a host function
OuterClosureNew == ~Nested /\ ClosureNew(1, 0, 0)
OuterStoreJsValue == ~Nested /\ StoreJsValue(JsFunction("f"), 0)

NextReentrant ==
    \/ GlueInit(TheInstance)
    \/ OuterClosureNew
    \/ OuterStoreJsValue
    \/ \E ref \in HandleRefs : CallEnter(ref, 0, 0, 1)
    \/ \E host \in ReentrantHostBehaviours : CallReturn(host)
    \/ NestedStringNew
    \/ \E ref \in HandleRefs : NestedIncrementRefCount(ref)
    \/ \E ref \in HandleRefs : NestedDecrementRefCount(ref)

SpecReentrant == Init /\ [][NextReentrant]_vars


\* the invariants of the free list and the counts: every count is a natural
\* number, the free list holds no index twice, an index it holds has no
\* count above 0, and every index of count 0 is in it
FreeListInvariants(T) ==
    /\ \A i \in DOMAIN T.refCounts :
          T.refCounts[i].k = "number" /\ T.refCounts[i].n >= 0
    /\ \A k, l \in 1..Len(T.freeIndices) :
          T.freeIndices[k] = T.freeIndices[l] => k = l
    /\ \A k \in 1..Len(T.freeIndices) :
          /\ T.freeIndices[k] \in 0..(Len(T.values) - 1)
          /\ RefCountAt(T.refCounts, T.freeIndices[k]) \in {CountNum(0), CountUndefined}
    /\ \A i \in 0..(Len(T.values) - 1) :
          RefCountAt(T.refCounts, i) = CountNum(0) =>
              \E k \in 1..Len(T.freeIndices) : T.freeIndices[k] = i

\* the step in which env.call returns to the module, after its host
\* function entered the module again
ReturnStep == Len(stack') = Len(stack) - 1

\* the return allocated a slot for the result (or the error) of the call
ReturnAllocated == ~last'.threw /\ IsBoxed(last'.val)

\* C16: at the return of a call whose host function entered the module
\* again, the invariants of the free list and the counts hold, every slot
\* other than the one of the result has the value and the count the nested
\* frame left it with, and the result is in an index that had no count above
\* 0.
C16_ReentrantReturn ==
    [][ReturnStep =>
          /\ FreeListInvariants(Table')
          /\ \A j \in 0..(Len(values) - 1) :
                (ReturnAllocated => j # WrittenIdx') =>
                    /\ values'[j + 1] = values[j + 1]
                    /\ RefCountAt(refCounts', j) = RefCountAt(refCounts, j)
          /\ ReturnAllocated =>
                /\ ~(RefCountAt(refCounts, WrittenIdx').n > 0)
                /\ values'[WrittenIdx' + 1] = last'.val
                /\ RefCountAt(refCounts', WrittenIdx') = CountNum(1)]_vars

------------------------------------------------------------------------------
(* Growth of the value table: a module stores values into cell 0 and
   releases them *)

GrowthRefs == {rsValueFromTyIdx(TY_OBJECT, i) : i \in 0..(MaxGrowLen - 1)}

NextGrowth ==
    \/ GlueInit(GrowthInstance)
    \/ \E v \in TableVals : StoreJsValue(v, 0)
    \/ \E ref \in GrowthRefs : DecrementRefCount(ref)

SpecGrowth == Init /\ [][NextGrowth]_vars

\* a step of allocValue in which the table grew
GrowthStep == StoreAllocStep /\ Len(values') > Len(values)

\* C17: an alloc that makes the table grow changes neither the value nor the
\* count of an index of the table before it, and a handle of such an index
\* resolves to the same value after it.
C17_GrowthKeepsSlots ==
    [][GrowthStep =>
          /\ freeIndices = <<>>
          /\ WrittenIdx' >= Len(values)
          /\ \A j \in 0..(Len(values) - 1) :
                /\ values'[j + 1] = values[j + 1]
                /\ RefCountAt(refCounts', j) = RefCountAt(refCounts, j)
                /\ \A ty \in TagsOfEncode :
                      resolveJsValueFromRsValue(Table', rsValueFromTyIdx(ty, j))
                         = resolveJsValueFromRsValue(Table, rsValueFromTyIdx(ty, j))]_vars

\* the table has just grown from two slots to four while the indices 0 and 1
\* held their values
C17_Witness ==
    /\ last.op = "store" /\ ~last.threw
    /\ Len(values) = 4
    /\ WrittenIdx >= 2
    /\ values[1] = JsObject("a") /\ values[2] = JsString("hi")
    /\ RefCountAt(refCounts, 0) = CountNum(1)
    /\ RefCountAt(refCounts, 1) = CountNum(1)
    /\ Len(freeIndices) = 1


\* C18: the length of the table never decreases; it grows only in an alloc
\* that found the free list empty, by max(1, old length) slots, so that a
\* length above 0 at least doubles; the assertions of the growth hold, and
\* after the alloc the free list holds the new indices but the one taken.
C18_GrowthDoubles ==
    [][/\ Len(values') >= Len(values)
       /\ Len(values') > Len(values) =>
             LET old == Len(values)
                 delta == IF old >= 1 THEN old ELSE 1
             IN  /\ StoreAllocStep
                 /\ freeIndices = <<>>
                 /\ Len(values') = old + delta
                 /\ Len(values') >= 2 * old
                 /\ GrowthAssertionsHold(Table)
                 /\ Len(freeIndices') = delta - 1
                 /\ \A k \in 1..Len(freeIndices') :
                       freeIndices'[k] >= old /\ freeIndices'[k] < old + delta]_vars

\* the table has grown from two slots to four, and one of the two new
\* indices is in the free list
C18_Witness ==
    /\ last.op = "store" /\ ~last.threw
    /\ Len(values) = 4
    /\ Len(freeIndices) = 1
    /\ freeIndices[1] \in {2, 3}
    /\ WrittenIdx \in {2, 3}
    /\ WrittenIdx # freeIndices[1]


\* no count has been changed since its alloc set it to 1
NothingReleased == \A i \in DOMAIN refCounts : refCounts[i] = CountNum(1)

\* C19: allocValue takes the smallest new index first: with no decrement in
\* between, the allocs return the indices 0, 1, 2, 3 in this order.
C19_SmallestNewIndexFirst ==
    [][(StoreAllocStep /\ NothingReleased) =>
          /\ WrittenIdx' = Cardinality(DOMAIN refCounts)
          /\ Len(values') > Len(values) => WrittenIdx' = Len(values)]_vars

------------------------------------------------------------------------------
(* Attachment: init is called with either instance and with a value that is
   no instance, while the module stores and releases values *)

NextAttach ==
    \/ \E inst \in WasmInstances \cup {NotAnInstance} : GlueInit(inst)
    \/ \E v \in TableVals : StoreJsValue(v, 0)
    \/ \E ref \in HandleRefs : DecrementRefCount(ref)

SpecAttach == Init /\ [][NextAttach]_vars

\* C20: the first init with an instance attaches it; every later init ends
\* in the assertion and leaves the attached instance as it is.
C20_AttachedOnce ==
    [][/\ (last'.op = "init" /\ instance = "null"
              /\ last'.val.id \in WasmInstances) =>
             /\ ~last'.threw
             /\ instance' = last'.val.id
       /\ (last'.op = "init" /\ instance # "null") =>
             /\ last'.threw /\ last'.ret = AssertionError
             /\ instance' = instance
             /\ UNCHANGED <<values, refCounts, freeIndices, mem>>
       /\ instance # "null" => instance' = instance]_vars

\* init with another instance has ended in the assertion, on a Glue whose
\* module holds a value
C20_Witness ==
    /\ last.op = "init" /\ last.threw
    /\ instance = "instance"
    /\ last.val = JsObject(GrowthInstance)
    /\ \E i \in DOMAIN refCounts : refCounts[i] = CountNum(1)

------------------------------------------------------------------------------
(* The page of src/shin.js and src/unnamed/part_000: the accessors of the
   module memory, the table of graphics handles externRefGlue, and the
   imports of the canvas *)

\* the bound of the model: the number of handles externRefGlue.insert issues
MaxHandles == 3

\* getWasmUint8Array(): the cache after the call, which is the view returned
getWasmUint8Array(cache, bufs) ==
    IF cache = NoView \/ ByteLength(cache, bufs) = 0
    THEN NewView(Uint8Array, MemoryBuffer(bufs))
    ELSE cache

\* getWasmDataView(): the cache after the call, which is the view returned
getWasmDataView(cache, bufs) ==
    IF cache = NoView \/ ViewIsStale(cache, MemoryBuffer(bufs))
    THEN NewView(DataView, MemoryBuffer(bufs))
    ELSE cache

\* wasmReadCStr(ptr): the text of the bytes from ptr up to the first zero
\* byte; with no zero byte findIndex gives -1 and the subarray is empty
wasmReadCStr(m, ptr) ==
    LET zeros == {a \in ptr..(MemBytes(m) - 1) : ByteAt(m, a) = 0}
        len == IF zeros = {} THEN -1
               ELSE (CHOOSE a \in zeros : \A b \in zeros : a <= b) - ptr
    IN  TextDecoderDecode(Subarray(m, ptr, Max(len, 0)))

ExternRefGlue == [table |-> table, freeIndices |-> externFreeIndices]

\* externRefGlue.grow(delta)
externRefGlue_grow(G, delta) ==
    [table |-> TableGrow(G.table, delta),
     freeIndices |-> G.freeIndices \o GrowPushOrder(Len(G.table), delta)]

\* freeIdx !== undefined, for freeIdx = freeIndices.pop()
FreeIdxIsDefined(free) == free # <<>>

\* externRefGlue.alloc(): [idx, G]
externRefGlue_alloc(G) ==
    LET rest == [G EXCEPT !.freeIndices = IF @ = <<>> THEN @ ELSE PopRest(@)]
        grown == externRefGlue_grow(rest, Max(Len(rest.freeIndices) * 2, 1))
    IN  IF FreeIdxIsDefined(G.freeIndices)
        THEN [idx |-> PopIdx(G.freeIndices), G |-> rest]
        ELSE [idx |-> PopIdx(grown.freeIndices),
              G |-> [grown EXCEPT !.freeIndices = PopRest(@)]]

\* mutant: the handle is the index
HandleOfIdxZeroBased(idx) == idx

\* return idx + 1: handles are 1-based, 0 stands for no value
HandleOfIdx(idx) == idx + 1

\* externRefGlue.insert(value): [ret, G], ret the handle
externRefGlue_insert(G, value) ==
    LET a == externRefGlue_alloc(G)
    IN  [ret |-> HandleOfIdx(a.idx),
         G |-> [a.G EXCEPT !.table = [@ EXCEPT ![a.idx + 1] = value]]]

\* externRefGlue.get(idx): [threw, val]; Table.get throws on an index that
\* is negative or not below the length
externRefGlue_get(G, idx) ==
    IF idx - 1 < 0 THEN [threw |-> TRUE, val |-> TypeError]
    ELSE IF idx - 1 >= Len(G.table) THEN [threw |-> TRUE, val |-> RangeError]
    ELSE [threw |-> FALSE, val |-> G.table[idx]]

\* the host objects of the page: the canvas of id "c", and the context its
\* getContext("2d") gives
Canvas == JsObject("canvas")
Context == JsObject("context")
IdC == <<99>>
Type2d == <<50, 100>>

\* document.getElementById(id)
getElementById(id) == IF id = IdC THEN Canvas ELSE JsNull

\* el.getContext(contextType): [threw, val]; only a canvas has the method
getContext(el, contextType) ==
    IF el # Canvas THEN [threw |-> TRUE, val |-> TypeError]
    ELSE [threw |-> FALSE,
          val |-> IF contextType = Type2d THEN Context ELSE JsNull]

\* the width and the height of a canvas that was not sized; another object
\* has neither, and setInt32 writes 0 for undefined
WidthOf(el) == IF el = Canvas THEN 300 ELSE 0
HeightOf(el) == IF el = Canvas THEN 150 ELSE 0

\* a 32-bit integer an import returns to the module
I32(n) == [t |-> "i32", n |-> n]

\* (value && externRefGlue.insert(value)) || 0, as an action on the table
InsertUnlessNull(value, name, ptr) ==
    LET r == externRefGlue_insert(ExternRefGlue, value)
    IN  IF value = JsNull
        THEN /\ last' = Op(name, value, ZeroBits, ptr, FALSE, I32(0), "none", NoFrame)
             /\ UNCHANGED <<table, externFreeIndices, issued>>
        ELSE /\ Len(issued) < MaxHandles
             /\ table' = r.G.table
             /\ externFreeIndices' = r.G.freeIndices
             /\ issued' = Append(issued, [h |-> r.ret, value |-> value])
             /\ last' = Op(name, value, ZeroBits, ptr, FALSE, I32(r.ret), "none", NoFrame)

\* the views wasmReadCStr takes
ReadCStrViews ==
    /\ wasmUint8Array' = getWasmUint8Array(wasmUint8Array, buffers)
    /\ viewed' = {[asked |-> Uint8Array, view |-> wasmUint8Array']}
    /\ UNCHANGED <<wasmDataView, buffers, memoryViews>>

\* env.canvas_get_by_id(idPtr)
CanvasGetById(idPtr) ==
    /\ ReadCStrViews
    /\ InsertUnlessNull(getElementById(wasmReadCStr(mem, idPtr)),
                        "canvas_get_by_id", idPtr)
    /\ UNCHANGED <<instance, values, refCounts, freeIndices, mem, zeroed, stack>>
    /\ UNCHANGED <<frameVars, entered, handleVars>>

\* env.canvas_get_context(elIdx, contextTypePtr)
CanvasGetContext(elIdx, contextTypePtr) ==
    LET el == externRefGlue_get(ExternRefGlue, elIdx)
        context == getContext(el.val, wasmReadCStr(mem, contextTypePtr))
    IN  /\ IF el.threw
           THEN /\ last' = Op("canvas_get_context", JsUndefined, ZeroBits,
                              elIdx, TRUE, el.val, "none", NoFrame)
                /\ UNCHANGED <<externVars, viewVars>>
           ELSE /\ ReadCStrViews
                /\ IF context.threw
                   THEN /\ last' = Op("canvas_get_context", el.val, ZeroBits,
                                      elIdx, TRUE, context.val, "none", NoFrame)
                        /\ UNCHANGED <<table, externFreeIndices, issued>>
                   ELSE InsertUnlessNull(context.val, "canvas_get_context", elIdx)
        /\ UNCHANGED <<instance, values, refCounts, freeIndices, mem, zeroed, stack>>
        /\ UNCHANGED <<frameVars, entered, handleVars>>

\* env.canvas_get_size(elIdx, widthPtr, heightPtr), for pointers in the
\* memory: wasmWriteI32 twice
CanvasGetSize(elIdx, widthPtr, heightPtr) ==
    LET el == externRefGlue_get(ExternRefGlue, elIdx)
    IN  /\ IF el.threw
           THEN /\ last' = Op("canvas_get_size", JsUndefined, ZeroBits, elIdx,
                              TRUE, el.val, "none", NoFrame)
                /\ UNCHANGED <<mem, wasmDataView, viewVars>>
           ELSE /\ wasmDataView' = getWasmDataView(wasmDataView, buffers)
                /\ viewed' = {[asked |-> DataView, view |-> wasmDataView']}
                /\ mem' = SetUint32(SetUint32(mem, widthPtr, WidthOf(el.val)),
                                    heightPtr, HeightOf(el.val))
                /\ last' = Op("canvas_get_size", el.val, ZeroBits, elIdx,
                              FALSE, JsUndefined, "none", NoFrame)
                /\ UNCHANGED <<buffers, memoryViews>>
        /\ UNCHANGED <<wasmUint8Array, table, externFreeIndices, issued>>
        /\ UNCHANGED <<instance, values, refCounts, freeIndices, zeroed, stack>>
        /\ UNCHANGED <<frameVars, entered, handleVars>>

\* the module makes its memory grow by delta pages: memory.grow(delta)
ModuleMemoryGrow(delta) ==
    /\ Attached
    /\ Len(buffers) < MaxBuffers
    /\ buffers' = MemoryGrow(buffers, delta)
    /\ viewed' = {}
    /\ last' = Op("memory.grow", JsUndefined, ZeroBits, delta, FALSE,
                  JsUndefined, "none", NoFrame)
    /\ UNCHANGED <<instance, values, refCounts, freeIndices, mem, zeroed, stack>>
    /\ UNCHANGED <<memoryViews, pageVars, entered, handleVars>>

(* Memory growth: the module stores a text and reads it back through the
   Glue, asks the page for the canvas and its size, and makes its memory
   grow in between, also inside its alloc export *)

\* the id of the canvas with its final zero byte
ViewTexts == {<<99, 0>>}

NextViews ==
    \/ GlueInit(TheInstance)
    \/ \E delta \in {0, 1} : ModuleMemoryGrow(delta)
    \/ \E b \in ViewTexts : ModuleWrite(StrSrcPtr, b)
    \/ StringNewOfWritten
    \/ ResolveJsValue(0)
    \/ \E grows \in BOOLEAN :
          StringGetAlloc(rsValueFromTyIdx(TY_STRING, 0), StrPtrPtr, StrLenPtr,
                         12, grows, 1)
    \/ CanvasGetById(StrSrcPtr)
    \/ CanvasGetSize(1, StrPtrPtr, StrLenPtr)

SpecViews == Init /\ [][NextViews]_vars

\* C21: whatever the order of memory growth and accessor calls, every view
\* an accessor returns is of the type asked for, and its buffer is the
\* current buffer of the module memory.
C21_ViewsAreCurrent ==
    \A e \in viewed :
        /\ e.view.type = e.asked
        /\ e.view.buffer = MemoryBuffer(buffers)
        /\ ByteLength(e.view, buffers) > 0

\* string_get has taken both views from the third buffer of the memory,
\* which its alloc made, while the page's caches hold views of detached
\* buffers
C21_Witness ==
    /\ last.op = "string_get" /\ ~last.threw
    /\ MemoryBuffer(buffers) = 3
    /\ viewed = {[asked |-> type, view |-> NewView(type, 3)] : type \in ViewTypes}
    /\ wasmDataView # NoView /\ ByteLength(wasmDataView, buffers) = 0
    /\ wasmUint8Array # NoView /\ wasmUint8Array.buffer # wasmDataView.buffer

------------------------------------------------------------------------------
(* The invocation of a closure by the host *)

\* mutant: the wrapper hands the caller's arguments on after ptr
WrappedArgsForwarded(ptr, args) == <<ptr>> \o args

\* the arguments of callByPtr(ptr) in callByPtrWrapped = (...args) => ...
WrappedArgs(ptr, args) == <<ptr>>

\* callByPtrWrapped(...args): [threw, ret, entered].  module = [threw, val]
\* is what the module function does when called: it returns val, or traps
callByPtrWrapped(closure, args, module) ==
    [threw |-> module.threw,
     ret |-> IF module.threw THEN JsObject("RuntimeError") ELSE JsUndefined,
     entered |-> <<[f |-> closure.callByPtr,
                    args |-> WrappedArgs(closure.ptr, args)]>>]

\* the arguments object of an invocation
JsArguments(args) == [t |-> "object", args |-> args]

\* the host invokes the closure the slot idx holds, with the arguments args
ClosureInvoke(idx, args, module) ==
    /\ Attached
    /\ idx < Len(values)
    /\ IsClosure(values[idx + 1])
    /\ LET r == callByPtrWrapped(values[idx + 1], args, module)
       IN  /\ entered' = r.entered
           /\ last' = Op("invoke", JsArguments(args), rsValueFromTyIdx(TY_FUNCTION, idx),
                         0, r.threw, r.ret, "none", NoFrame)
    /\ UNCHANGED <<instance, values, refCounts, freeIndices, mem, zeroed, stack>>
    /\ UNCHANGED <<viewVars, pageVars, handleVars>>

(* closures: the module makes closures of two of its functions with two
   contexts, and releases them; the host invokes those it holds *)

\* the arguments a host caller passes: none, an event, a number and a text
HostArgs == {<<>>, <<JsObject("event")>>, <<JsNumber(ZeroBits), JsString(<<104>>)>>}

NextClosures ==
    \/ GlueInit(TheInstance)
    \/ \E f \in Callbacks, ptr \in {0, 8} : ClosureNew(f, ptr, 0)
    \/ \E ref \in HandleRefs : DecrementRefCount(ref)
    \/ \E idx \in {0, 1}, args \in HostArgs, module \in CallbackResults :
          ClosureInvoke(idx, args, module)

SpecClosures == Init /\ [][NextClosures]_vars

\* C22: every invocation of a closure that closure_new(fnIndex, ctxPtr)
\* made calls the module function fnIndex exactly once, with ctxPtr as its
\* only argument whatever the caller passed, and returns undefined whatever
\* the module function returned (a trap of the module function leaves the
\* closure as the exception it is).
C22_ClosureCallsWithCtxOnly ==
    [][last'.op = "invoke" =>
          LET closure == values[rsValueIdx(last'.ref) + 1]
          IN  /\ closure = JsClosure(closure.callByPtr, closure.ptr)
              /\ Len(entered') = 1
              /\ entered'[1].f = closure.callByPtr
              /\ entered'[1].args = <<closure.ptr>>
              /\ ~last'.threw => last'.ret = JsUndefined]_vars

\* the host has invoked the closure of the function 2 and the context 8 with
\* two arguments, the module function returned 7, and the closure undefined
C22_Witness ==
    /\ last.op = "invoke" /\ ~last.threw
    /\ Len(last.val.args) = 2
    /\ entered = <<[f |-> 2, args |-> <<8>>]>>
    /\ last.ret = JsUndefined
    /\ values[rsValueIdx(last.ref) + 1] = JsClosure(2, 8)

------------------------------------------------------------------------------
(* Claims about wire values that denote no value, under SpecCall *)

\* the wire value is none of the seven singleton patterns, and its id is
\* below ID_MAX, or its index is not in the table, or the slot of its index
\* is not in use (its count is not above 0)
DenotesNothing(T, w) ==
    /\ w \notin Singletons
    /\ \/ rsValueIsPredefined(w)
       \/ rsValueIdx(w) >= Len(T.values)
       \/ ~(RefCountAt(T.refCounts, rsValueIdx(w)).k = "number"
              /\ RefCountAt(T.refCounts, rsValueIdx(w)).n > 0)

\* a call or construct whose ref, or one of whose arguments, denotes nothing
CallOfNothing ==
    /\ last'.op \in {"call", "construct"}
    /\ \/ DenotesNothing(Table, last'.ref)
       \/ \E i \in 0..(last'.argsLen - 1) :
             /\ FloatIsNaN(mem[last'.argsPtr + i])
             /\ DenotesNothing(Table, mem[last'.argsPtr + i])

\* C23: a call or construct whose ref or argument is a stale index, an index
\* out of range, or a wire value with a singleton id that is no singleton
\* pattern, ends in an error and allocates no slot.
C23_BadRefIsFatal ==
    [][CallOfNothing =>
          /\ last'.threw
          /\ values' = values
          /\ refCounts' = refCounts
          /\ freeIndices' = freeIndices]_vars

------------------------------------------------------------------------------
(* get of a ref that denotes no object: the object a and a string are
   stored into cell 0, the name of a property is written at address 8, and
   get is called with singletons, handles and the bits of numbers as ref *)

\* the numbers 0 and 1.0000002384185791..., whose low 32 bits read as the
\* ids 0 and 9
NumberRefs == {ZeroBits, OneAndABitBits}

GetAnyRefs ==
    {UNDEFINED, NULL, TRUE_, FALSE_, NAN}
        \cup {rsValueFromTyIdx(ty, i) : ty \in {TY_OBJECT, TY_STRING}, i \in {0, 1}}
        \cup NumberRefs

NextGetAny ==
    \/ GlueInit(TheInstance)
    \/ \E v \in TableVals : StoreJsValue(v, 0)
    \/ \E prop \in {PropM, PropO} : ModuleWrite(8, prop)
    \/ \E ref \in GetAnyRefs : Get(ref, 8, 1, 0)
    \/ \E ref \in HandleRefs : DecrementRefCount(ref)

SpecGetAny == Init /\ [][NextGetAny]_vars

\* the ref is a singleton that is no object, the handle of a slot in use
\* that holds a string, or the bits of a number that is not NaN
RefOfNoObject(T, ref) ==
    \/ ref \in {UNDEFINED, NULL, TRUE_, FALSE_, NAN}
    \/ ~FloatIsNaN(ref)
    \/ /\ FloatIsNaN(ref) /\ ~rsValueIsPredefined(ref)
       /\ rsValueTy(ref) = TY_STRING
       /\ rsValueIdx(ref) < Len(T.values)
       /\ T.values[rsValueIdx(ref) + 1].t = "string"

\* C24: get of a ref that denotes no object and no function (a singleton
\* undefined, null, true, false or NaN, the handle of a string, the bits of
\* a number) ends in an error and allocates no slot.
C24_GetOfNoObjectIsFatal ==
    [][(last'.op = "get" /\ RefOfNoObject(Table, last'.ref)) =>
          /\ last'.threw
          /\ values' = values
          /\ refCounts' = refCounts
          /\ freeIndices' = freeIndices
          /\ mem' = mem]_vars

------------------------------------------------------------------------------
(* Handles that outlive their value: a string and a function are stored
   into the cells 0 and 1, released, and the cells resolved *)

NextReuse ==
    \/ GlueInit(TheInstance)
    \/ \E v \in {JsString(<<104, 105>>), JsFunction("f")}, p \in {0, 1} :
          StoreJsValue(v, p)
    \/ \E ref \in HandleRefs : DecrementRefCount(ref)
    \/ \E p \in {0, 1} : ResolveJsValue(p)

SpecReuse == Init /\ [][NextReuse]_vars

\* tags a wire value can carry: those encode writes, the next one and the
\* largest
SomeTags == TagsOfEncode \cup {TY_STRING + 1, TY_MASK}

\* an alloc that takes an index a decrement has released
ReuseStep == StoreAllocStep /\ InFree(WrittenIdx')

\* the cell holds a wire value of the index idx
IsHandleOf(w, idx) ==
    FloatIsNaN(w) /\ ~rsValueIsPredefined(w) /\ rsValueIdx(w) = idx

\* C25: once a released index is allocated again for a value y, a wire value
\* of that index resolves to y whatever its tag, and so does every cell that
\* still holds the wire value issued for the earlier occupant: resolve
\* selects the slot by the id alone.
C25_StaleHandleResolvesToNewValue ==
    [][ReuseStep =>
          /\ \A ty \in SomeTags :
                resolveJsValueFromRsValue(Table', rsValueFromTyIdx(ty, WrittenIdx'))
                   = [threw |-> FALSE, val |-> last'.val]
          /\ \A p \in Ptrs :
                IsHandleOf(mem'[p], WrittenIdx') =>
                    resolveJsValueFromRsValuePtr(Table', mem', p)
                       = [threw |-> FALSE, val |-> last'.val]]_vars

\* the index 0, released, was allocated again for a function through cell
\* 0, while cell 1 holds the wire value issued for the string that had the
\* index before; that wire value resolves to the function
C25_Witness ==
    /\ last.op = "store" /\ ~last.threw /\ last.ptr = 0
    /\ last.val = JsFunction("f")
    /\ mem[0] = rsValueFromTyIdx(TY_FUNCTION, 0)
    /\ mem[1] = rsValueFromTyIdx(TY_STRING, 0)
    /\ RefCountAt(refCounts, 0) = CountNum(1)
    /\ zeroed = <<>>
    /\ resolveJsValueFromRsValuePtr(Table, mem, 1)
          = [threw |-> FALSE, val |-> JsFunction("f")]

------------------------------------------------------------------------------
(* Calls that return: the module stores values and counts references up
   and down, and no call ends in an assertion *)

IncrementReturns(ref) == IncrementRefCount(ref) /\ ~last'.threw
DecrementReturns(ref) == DecrementRefCount(ref) /\ ~last'.threw

NextReturns ==
    \/ GlueInit(TheInstance)
    \/ \E v \in TableVals : StoreJsValue(v, 0)
    \/ \E ref \in Refs : IncrementReturns(ref)
    \/ \E ref \in Refs : DecrementReturns(ref)

SpecReturns == Init /\ [][NextReturns]_vars

\* C26: as long as every alloc, increment_ref_count and decrement_ref_count
\* returns normally, the free list holds no index twice and alloc returns no
\* index whose count is above 0.
C26_NoIndexFreeTwice ==
    [][/\ \A k, l \in 1..Len(freeIndices') :
             freeIndices'[k] = freeIndices'[l] => k = l
       /\ StoreAllocStep => ~(RefCountAt(refCounts, WrittenIdx').n > 0)]_vars

------------------------------------------------------------------------------
(* The Glue of src/unnamed/part_001: its imports give the module handles,
   and the module clones and releases the handles it holds *)

\* the bounds of the model: the largest length of the handle table, and the
\* largest number of times the module holds one handle
MaxHandleLen == 8
MaxHeld == 2

HandleTableOf == [values |-> handleTable, refCounts |-> handleCounts,
                  freeIndices |-> freeHandles]

HeldOf(h) == IF h \in DOMAIN held THEN held[h] ELSE 0

SetHandleTable(T) ==
    /\ Len(T.values) <= MaxHandleLen
    /\ handleTable' = T.values
    /\ handleCounts' = T.refCounts
    /\ freeHandles' = T.freeIndices

SetHeld(h, n) ==
    /\ n <= MaxHeld
    /\ held' = [i \in DOMAIN held \cup {h} |-> IF i = h THEN n ELSE held[i]]

HandlePageUnchanged ==
    /\ UNCHANGED <<instance, values, refCounts, freeIndices, mem, zeroed, stack>>
    /\ UNCHANGED <<viewVars, pageVars, entered>>

\* an import (string_new, number_new, closure_new, get) gives the module the
\* handle allocValue(value) returns
HandleAlloc(value) ==
    /\ LET a == handleAllocValue(HandleTableOf, value)
       IN  /\ SetHandleTable(a.T)
           /\ SetHeld(a.idx, HeldOf(a.idx) + 1)
           /\ last' = Op("allocValue", value, ZeroBits, a.idx, FALSE,
                         JsUndefined, "none", NoFrame)
    /\ HandlePageUnchanged

\* the module clones a handle it holds: env.increment_strong_count(handle)
IncrementStrongCount(handle) ==
    /\ HeldOf(handle) > 0
    /\ SetHandleTable(increment_strong_count(HandleTableOf, handle))
    /\ SetHeld(handle, HeldOf(handle) + 1)
    /\ last' = Op("increment_strong_count", JsUndefined, ZeroBits, handle,
                  FALSE, JsUndefined, "none", NoFrame)
    /\ HandlePageUnchanged

\* the module releases a handle it holds: env.decrement_strong_count(handle)
DecrementStrongCount(handle) ==
    /\ HeldOf(handle) > 0
    /\ LET r == decrement_strong_count(HandleTableOf, handle)
       IN  /\ SetHandleTable(r.T)
           /\ last' = Op("decrement_strong_count", JsUndefined, ZeroBits,
                         handle, r.threw,
                         IF r.threw THEN AssertionError ELSE JsUndefined,
                         "none", NoFrame)
    /\ SetHeld(handle, HeldOf(handle) - 1)
    /\ HandlePageUnchanged

HandleAllocVals == {JsUndefined, JsNull, JsObject("a")}

NextHandleTable ==
    \/ \E value \in HandleAllocVals : HandleAlloc(value)
    \/ \E handle \in 0..(MaxHandleLen - 1) : IncrementStrongCount(handle)
    \/ \E handle \in 0..(MaxHandleLen - 1) : DecrementStrongCount(handle)

SpecHandleTable == Init /\ [][NextHandleTable]_vars

HandleIsFree(h) == \E k \in 1..Len(freeHandles) : freeHandles[k] = h

\* C27: the first four allocations of the constructor return the handles 0,
\* 1, 2, 3, so its assertions hold; and while the module releases no handle
\* more often than it was given it, the handles 0 and 1 have a count of at
\* least 1, are not in freeHandles, and hold undefined and null.
C27_PredefinedHandlesStay ==
    /\ ConstructorAssertionsHold
    /\ \A h \in {HandleUNDEFINED, HandleNULL} :
          /\ RefCountAt(handleCounts, h).k = "number"
          /\ RefCountAt(handleCounts, h).n >= 1
          /\ RefCountAt(handleCounts, h).n = 1 + HeldOf(h)
          /\ ~HandleIsFree(h)
    /\ handleTable[HandleUNDEFINED + 1] = JsUndefined
    /\ handleTable[HandleNULL + 1] = JsNull

\* the module has released every handle of undefined it was given, after it
\* held two, while it holds null and the table has grown to eight slots and
\* has released the handle 4
C27_Witness ==
    /\ last.op = "decrement_strong_count" /\ last.ptr = HandleUNDEFINED
    /\ HeldOf(HandleUNDEFINED) = 0 /\ HeldOf(HandleNULL) = 1
    /\ handleCounts[HandleUNDEFINED] = CountNum(1)
    /\ handleCounts[HandleNULL] = CountNum(2)
    /\ Len(handleTable) = 8
    /\ HandleIsFree(4)

------------------------------------------------------------------------------
(* The graphics handles: the module writes the id of a canvas or the type of
   a context at address 8, and asks for the canvas, for a context of it and
   for its size *)

\* "c", "2d" and "x", each with its final zero byte
PageTexts == {<<99, 0>>, <<50, 100, 0>>, <<120, 0>>}

NextExtern ==
    \/ GlueInit(TheInstance)
    \/ \E b \in PageTexts : ModuleWrite(StrSrcPtr, b)
    \/ CanvasGetById(StrSrcPtr)
    \/ \E elIdx \in 0..(MaxHandles + 1) : CanvasGetContext(elIdx, StrSrcPtr)
    \/ \E elIdx \in 0..(MaxHandles + 1) : CanvasGetSize(elIdx, StrPtrPtr, StrLenPtr)

SpecExtern == Init /\ [][NextExtern]_vars

\* every handle insert returned is at least 1, no two are equal, and get of
\* each gives the value inserted under it
IssuedHandlesHold(G, seq) ==
    /\ \A k \in DOMAIN seq :
          /\ seq[k].h >= 1
          /\ externRefGlue_get(G, seq[k].h) = [threw |-> FALSE, val |-> seq[k].value]
    /\ \A k, l \in DOMAIN seq : seq[k].h = seq[l].h => k = l

\* C28: every handle externRefGlue.insert returns is at least 1, the handles
\* are pairwise distinct, get(h) gives the value inserted under h, no slot is
\* released or overwritten, and canvas_get_by_id and canvas_get_context
\* return 0 when the host object is missing and a handle otherwise.
C28_ExternHandles ==
    [][/\ IssuedHandlesHold(ExternRefGlue', issued')
       /\ Len(table') >= Len(table)
       /\ \A j \in 1..Len(table) : table'[j] = table[j]
       /\ externFreeIndices' = <<>>
       /\ (last'.op \in {"canvas_get_by_id", "canvas_get_context"} /\ ~last'.threw) =>
             IF last'.val = JsNull
             THEN last'.ret = I32(0) /\ issued' = issued
             ELSE /\ last'.ret.n >= 1
                  /\ issued' = Append(issued, [h |-> last'.ret.n, value |-> last'.val])
                  /\ externRefGlue_get(ExternRefGlue, last'.ret.n).threw]_vars

\* the canvas got the handle 1 and its context the handles 2 and 3, and
\* canvas_get_context has then returned 0 for a type the canvas has not
C28_Witness ==
    /\ last.op = "canvas_get_context" /\ ~last.threw /\ last.ret = I32(0)
    /\ issued = <<[h |-> 1, value |-> Canvas], [h |-> 2, value |-> Context],
                  [h |-> 3, value |-> Context]>>
    /\ table = <<Canvas, Context, Context>>

====
